---- MODULE Spec2Model ----
(***************************************************************************)
(* A model of the x509sak analysis engine: the CA-relationship estimator,  *)
(* the X.509 extension object model, the public-key/DSA estimators and     *)
(* the extension estimators.                                               *)
(*                                                                         *)
(* Every estimator is a function from parsed objects to a judgement list.  *)
(* A Python call either returns a value or raises; both outcomes are       *)
(* modelled by an outcome record [raised, judgements]: raised = NoException*)
(* means the call returned `judgements`, anything else names the exception *)
(* that left the call (the judgements collected so far are then lost to    *)
(* the caller).                                                            *)
(*                                                                         *)
(* Python's None is the empty tuple <<>>, a present value v is <<v>>.      *)
(***************************************************************************)
EXTENDS Integers, Sequences, FiniteSets, TLC

VARIABLES pc, arg, res

vars == <<pc, arg, res>>

\* ------------------------------------------------------------------ bounds

\* validity timestamps of the validity-interval specification are 0..MaxTime
MaxTime == 3
\* longest authorityCertIssuer name list
MaxNames == 1

\* ------------------------------------------------------- Python primitives

None == <<>>
Some(v) == <<v>>
Optional(S) == {None} \cup {Some(v) : v \in S}

NoException == "NoException"
Return(judgements) == [raised |-> NoException, judgements |-> judgements]
Raise(exception) == [raised |-> exception, judgements |-> <<>>]

\* `a; b` for two calls that each add to the judgement list: b runs only if a
\* returned, and an exception in either leaves the enclosing function.
Then(a, b) ==
    IF a.raised # NoException THEN a
    ELSE IF b.raised # NoException THEN b
    ELSE Return(a.judgements \o b.judgements)

\* a judgement: its code and its `bits` keyword (None when not given)
Judgement(code, bits) == [code |-> code, bits |-> bits]

Codes(outcome) == {outcome.judgements[i].code : i \in DOMAIN outcome.judgements}
Count(outcome, code) ==
    Cardinality({i \in DOMAIN outcome.judgements : outcome.judgements[i].code = code})

RECURSIVE SeqsUpTo(_, _)
SeqsUpTo(S, n) ==
    IF n = 0 THEN {<<>>}
    ELSE LET shorter == SeqsUpTo(S, n - 1)
         IN  shorter \cup {Append(s, x) : s \in {t \in shorter : Len(t) = n - 1}, x \in S}

\* ---------------------------------------------------------- X509Extensions

\* X509Extensions.get_all: the extensions with that OID, in container order
RECURSIVE get_all(_, _)
get_all(exts, oid) ==
    IF exts = <<>> THEN <<>>
    ELSE IF Head(exts).oid = oid THEN <<Head(exts)>> \o get_all(Tail(exts), oid)
    ELSE get_all(Tail(exts), oid)

\* X509Extensions.get_first: None when there is none, else the first
get_first(exts, oid) ==
    LET found == get_all(exts, oid)
    IN  IF Len(found) = 0 THEN None ELSE Some(found[1])

\* ------------------------------------------- CARelationshipSecurityEstimator

\* The analysis compares names, key ids and serials for equality only, so two
\* values of each show every case.
DistinguishedNames == {"CN=A", "CN=B"}
KeyIds == {"K1", "K2"}
Serials == {1, 2}

directoryName(dn) == [name |-> "directoryName", directory_name |-> dn]
dNSName == [name |-> "dNSName", directory_name |-> "n/a"]
GeneralNames == {directoryName(dn) : dn \in DistinguishedNames} \cup {dNSName}

\* the comparison `a OP b` of two possibly-None timestamps raises TypeError
Comparable(a, b) == a # None /\ b # None

\* the malformed-validity judgement added first, when any bound is None
TimestampMalformedJudgements(certificate, ca_certificate) ==
    IF \E ts \in {certificate.valid_not_before, certificate.valid_not_after,
                  ca_certificate.valid_not_before, ca_certificate.valid_not_after} : ts = None
    THEN <<Judgement("CA_Relationship_Validity_TimestampMalformed", None)>>
    ELSE <<>>

\* a containment test that leaves out the interval ends
FullOverlapConditionStrict(certificate, ca_certificate) ==
    /\ ca_certificate.valid_not_before[1] < certificate.valid_not_before[1]
    /\ certificate.valid_not_before[1] <= certificate.valid_not_after[1]
    /\ certificate.valid_not_after[1] < ca_certificate.valid_not_after[1]

\* 40: ca.not_before <= cert.not_before <= cert.not_after <= ca.not_after
FullOverlapCondition(certificate, ca_certificate) ==
    /\ ca_certificate.valid_not_before[1] <= certificate.valid_not_before[1]
    /\ certificate.valid_not_before[1] <= certificate.valid_not_after[1]
    /\ certificate.valid_not_after[1] <= ca_certificate.valid_not_after[1]

judge_validity_timestamps(certificate, ca_certificate) ==
    LET malformed == TimestampMalformedJudgements(certificate, ca_certificate)
    IN  IF ~Comparable(certificate.valid_not_before, ca_certificate.valid_not_after)
        THEN Raise("TypeError")
        ELSE IF certificate.valid_not_before[1] > ca_certificate.valid_not_after[1]
        THEN Return(malformed \o <<Judgement("CA_Relationship_Validity_NoOverlap", None)>>)
        ELSE IF ~Comparable(certificate.valid_not_after, ca_certificate.valid_not_before)
        THEN Raise("TypeError")
        ELSE IF certificate.valid_not_after[1] < ca_certificate.valid_not_before[1]
        THEN Return(malformed \o <<Judgement("CA_Relationship_Validity_NoOverlap", None)>>)
        ELSE IF FullOverlapCondition(certificate, ca_certificate)
        THEN Return(malformed \o <<Judgement("CA_Relationship_Validity_FullOverlap", None)>>)
        ELSE Return(malformed \o <<Judgement("CA_Relationship_Validity_PartialOverlap", None)>>)

\* ----------------------------------------------- validity-interval spec

Timestamps == Optional(0 .. MaxTime)

ValidityPairs ==
    [certificate : [valid_not_before : Timestamps, valid_not_after : Timestamps],
     ca_certificate : [valid_not_before : Timestamps, valid_not_after : Timestamps]]

InitValidity ==
    /\ pc = "start"
    /\ arg \in ValidityPairs
    /\ res = Return(<<>>)

JudgeValidityTimestamps ==
    /\ pc = "start"
    /\ pc' = "judge_validity_timestamps"
    /\ res' = judge_validity_timestamps(arg.certificate, arg.ca_certificate)
    /\ UNCHANGED arg

NextValidity == JudgeValidityTimestamps

SpecValidity == InitValidity /\ [][NextValidity]_vars

AllParseable(pair) ==
    /\ pair.certificate.valid_not_before # None
    /\ pair.certificate.valid_not_after # None
    /\ pair.ca_certificate.valid_not_before # None
    /\ pair.ca_certificate.valid_not_after # None

WellOrdered(pair) ==
    /\ pair.certificate.valid_not_before[1] <= pair.certificate.valid_not_after[1]
    /\ pair.ca_certificate.valid_not_before[1] <= pair.ca_certificate.valid_not_after[1]

Disjoint(pair) ==
    \/ pair.certificate.valid_not_before[1] > pair.ca_certificate.valid_not_after[1]
    \/ pair.certificate.valid_not_after[1] < pair.ca_certificate.valid_not_before[1]

Contained(pair) ==
    /\ pair.ca_certificate.valid_not_before[1] <= pair.certificate.valid_not_before[1]
    /\ pair.certificate.valid_not_after[1] <= pair.ca_certificate.valid_not_after[1]

ExpectedOverlapCode(pair) ==
    IF Disjoint(pair) THEN "CA_Relationship_Validity_NoOverlap"
    ELSE IF Contained(pair) THEN "CA_Relationship_Validity_FullOverlap"
    ELSE "CA_Relationship_Validity_PartialOverlap"

\* C4: for four parseable validity bounds with not_before <= not_after in each
\* certificate, _judge_validity_timestamps returns exactly one judgement:
\* NoOverlap iff the intervals are disjoint, FullOverlap iff the subject interval
\* lies in the issuer interval (ends inclusive), PartialOverlap otherwise; and
\* TimestampMalformed is not among them.
C4_ValidityExactlyOneCode ==
    (pc = "judge_validity_timestamps" /\ AllParseable(arg) /\ WellOrdered(arg)) =>
        /\ res.raised = NoException
        /\ Len(res.judgements) = 1
        /\ res.judgements[1].code = ExpectedOverlapCode(arg)

\* C4 witness: a subject interval that touches both ends of the issuer interval
\* has been judged a full overlap
C4_Witness ==
    /\ pc = "judge_validity_timestamps"
    /\ AllParseable(arg) /\ WellOrdered(arg)
    /\ arg.certificate.valid_not_before = arg.ca_certificate.valid_not_before
    /\ arg.certificate.valid_not_after = arg.ca_certificate.valid_not_after
    /\ arg.certificate.valid_not_before[1] < arg.certificate.valid_not_after[1]
    /\ Codes(res) = {"CA_Relationship_Validity_FullOverlap"}

\* ------------------------------------------------- CA-relationship analysis

\* judge_signature with the verification chained to the CA test by an elif
judge_signature_elif(certificate, ca_certificate) ==
    IF ~ca_certificate.is_ca_certificate
    THEN Return(<<Judgement("CA_Relationship_CACertificateInvalidAsCA", None)>>)
    ELSE IF ~certificate.signed_by_ca
    THEN Return(<<Judgement("CA_Relationship_SignatureVerificationFailure", None)>>)
    ELSE Return(<<Judgement("CA_Relationship_SignatureVerificationSuccess", None)>>)

\* 47-58: the issuer's fitness as a CA and the signature verification
judge_signature(certificate, ca_certificate) ==
    LET invalid_as_ca ==
            IF ~ca_certificate.is_ca_certificate
            THEN <<Judgement("CA_Relationship_CACertificateInvalidAsCA", None)>>
            ELSE <<>>
        verification ==
            IF ~certificate.signed_by_ca
            THEN <<Judgement("CA_Relationship_SignatureVerificationFailure", None)>>
            ELSE <<Judgement("CA_Relationship_SignatureVerificationSuccess", None)>>
    IN  Return(invalid_as_ca \o verification)

\* 63-67: issuer DN of the subject against subject DN of the issuer
judge_subject_issuer(certificate, ca_certificate) ==
    IF certificate.issuer # ca_certificate.subject
    THEN Return(<<Judgement("CA_Relationship_SubjectIssuerMismatch", None)>>)
    ELSE Return(<<Judgement("CA_Relationship_SubjectIssuerMatch", None)>>)

\* 73-82: AKI key id against the issuer's SKI key id
judge_aki_keyid(aki, ski) ==
    IF aki.keyid = None THEN Return(<<>>)
    ELSE IF ski = None
    THEN Return(<<Judgement("CA_Relationship_AKI_UncheckableNoCASKI", None)>>)
    ELSE IF Some(ski[1].keyid) # aki.keyid
    THEN Return(<<Judgement("CA_Relationship_AKI_KeyIDMismatch", None)>>)
    ELSE Return(<<Judgement("CA_Relationship_AKI_KeyIDMatch", None)>>)

\* 85-87: the for loop breaks at the first directoryName equal to the CA subject
CANameLoopBreaks(ca_names, ca_certificate) ==
    \E i \in DOMAIN ca_names :
        /\ ca_names[i].name = "directoryName"
        /\ ca_names[i].directory_name = ca_certificate.subject

\* 84-90: the loop's else branch (no break) adds the mismatch; a break adds nothing
judge_aki_ca_names(aki, ca_certificate) ==
    IF aki.ca_names = None THEN Return(<<>>)
    ELSE IF CANameLoopBreaks(aki.ca_names[1], ca_certificate) THEN Return(<<>>)
    ELSE Return(<<Judgement("CA_Relationship_AKI_CANameMismatch", None)>>)

\* 93-98: the serial branch; `ski.keyid` on a missing SKI is an AttributeError
judge_aki_serial(aki, ski, ca_certificate) ==
    IF aki.serial = None THEN Return(<<>>)
    ELSE IF aki.serial[1] # ca_certificate.serial
    THEN IF ski = None THEN Raise("AttributeError")
         ELSE IF Some(ski[1].keyid) # aki.keyid
         THEN Return(<<Judgement("CA_Relationship_AKI_SerialMismatch", None)>>)
         ELSE Return(<<Judgement("CA_Relationship_AKI_SerialMatch", None)>>)
    ELSE Return(<<>>)

\* 60-107: CARelationshipSecurityEstimator.analyze, its "security" entry
CARelationship_analyze(certificate, ca_certificate) ==
    LET aki == get_first(certificate.extensions, "AuthorityKeyIdentifier")
        ski == get_first(ca_certificate.extensions, "SubjectKeyIdentifier")
        aki_judgements ==
            IF aki = None THEN Return(<<>>)
            ELSE Then(judge_aki_keyid(aki[1], ski),
                 Then(judge_aki_ca_names(aki[1], ca_certificate),
                      judge_aki_serial(aki[1], ski, ca_certificate)))
    IN  Then(judge_subject_issuer(certificate, ca_certificate),
        Then(aki_judgements,
        Then(judge_validity_timestamps(certificate, ca_certificate),
             judge_signature(certificate, ca_certificate))))

\* the decoded AuthorityKeyIdentifier / SubjectKeyIdentifier extension objects
AuthorityKeyIdentifiers ==
    [oid : {"AuthorityKeyIdentifier"},
     keyid : Optional(KeyIds),
     ca_names : Optional(SeqsUpTo(GeneralNames, MaxNames)),
     serial : Optional(Serials)]

SubjectKeyIdentifiers == [oid : {"SubjectKeyIdentifier"}, keyid : KeyIds]

\* a certificate carries at most one AKI / SKI here; the list is its extensions
ExtensionLists(S) == {<<>>} \cup {<<e>> : e \in S}

\* the analysis only orders the validity bounds: an earlier and a later instant
\* (the interval arithmetic itself is exercised over 0 .. MaxTime above)
TimestampsCA == Optional({0, 1})

SubjectCertificates ==
    [issuer : DistinguishedNames,
     extensions : ExtensionLists(AuthorityKeyIdentifiers),
     valid_not_before : TimestampsCA,
     valid_not_after : TimestampsCA,
     signed_by_ca : BOOLEAN]

CACertificates ==
    [subject : DistinguishedNames,
     serial : Serials,
     extensions : ExtensionLists(SubjectKeyIdentifiers),
     valid_not_before : TimestampsCA,
     valid_not_after : TimestampsCA,
     is_ca_certificate : BOOLEAN]

InitCARelation ==
    /\ pc = "start"
    /\ arg \in [certificate : SubjectCertificates, ca_certificate : CACertificates]
    /\ res = Return(<<>>)

AnalyzeCARelation ==
    /\ pc = "start"
    /\ pc' = "analyze"
    /\ res' = CARelationship_analyze(arg.certificate, arg.ca_certificate)
    /\ UNCHANGED arg

NextCARelation == AnalyzeCARelation

SpecCARelation == InitCARelation /\ [][NextCARelation]_vars

\* ------------------------------------------ CA-relationship analysis: claims

Analyzed == pc = "analyze"
Returned == res.raised = NoException
SubjectAKI == get_first(arg.certificate.extensions, "AuthorityKeyIdentifier")
IssuerSKI == get_first(arg.ca_certificate.extensions, "SubjectKeyIdentifier")
Emitted(code) == code \in Codes(res)
EmittedOnce(codes) ==
    Cardinality({i \in DOMAIN res.judgements : res.judgements[i].code \in codes}) = 1

\* C1: whenever the subject's AKI carries a serial, the analysis emits
\* AKI_SerialMismatch iff that serial differs from the issuer's serial, AKI_SerialMatch
\* iff the two are equal, and exactly one of the two (stated here for pairs whose
\* validity bounds are all parseable).
C1_SerialMatchIffEqual ==
    (Analyzed /\ AllParseable(arg) /\ SubjectAKI # None /\ SubjectAKI[1].serial # None) =>
        /\ Returned
        /\ Emitted("CA_Relationship_AKI_SerialMismatch")
              <=> (SubjectAKI[1].serial[1] # arg.ca_certificate.serial)
        /\ Emitted("CA_Relationship_AKI_SerialMatch")
              <=> (SubjectAKI[1].serial[1] = arg.ca_certificate.serial)
        /\ EmittedOnce({"CA_Relationship_AKI_SerialMismatch", "CA_Relationship_AKI_SerialMatch"})

\* C2: when any of the four validity bounds is None the analysis returns, with
\* TimestampMalformed, with none of the three overlap codes, and with the signature
\* judgement (stated here for subjects without an AKI).
C2_MalformedTimestampDoesNotRaise ==
    (Analyzed /\ ~AllParseable(arg) /\ SubjectAKI = None) =>
        /\ Returned
        /\ Emitted("CA_Relationship_Validity_TimestampMalformed")
        /\ ~Emitted("CA_Relationship_Validity_FullOverlap")
        /\ ~Emitted("CA_Relationship_Validity_PartialOverlap")
        /\ ~Emitted("CA_Relationship_Validity_NoOverlap")
        /\ EmittedOnce({"CA_Relationship_SignatureVerificationSuccess",
                        "CA_Relationship_SignatureVerificationFailure"})

SomeCANameEqualsIssuerSubject ==
    \E i \in DOMAIN SubjectAKI[1].ca_names[1] :
        SubjectAKI[1].ca_names[1][i] = directoryName(arg.ca_certificate.subject)

\* C3: whenever the subject's AKI carries an authorityCertIssuer list, the analysis
\* emits AKI_CANameMatch iff some directoryName entry equals the issuer's subject DN,
\* AKI_CANameMismatch iff none does, and exactly one of the two (stated here for
\* parseable validity bounds and an AKI without a serial).
C3_CANameMatchIffSomeEntryEqual ==
    (/\ Analyzed /\ AllParseable(arg)
     /\ SubjectAKI # None /\ SubjectAKI[1].ca_names # None /\ SubjectAKI[1].serial = None) =>
        /\ Returned
        /\ Emitted("CA_Relationship_AKI_CANameMatch") <=> SomeCANameEqualsIssuerSubject
        /\ Emitted("CA_Relationship_AKI_CANameMismatch") <=> ~SomeCANameEqualsIssuerSubject
        /\ EmittedOnce({"CA_Relationship_AKI_CANameMatch", "CA_Relationship_AKI_CANameMismatch"})

KeyIdCodes ==
    {"CA_Relationship_AKI_UncheckableNoCASKI", "CA_Relationship_AKI_KeyIDMismatch",
     "CA_Relationship_AKI_KeyIDMatch"}

KeyIdFindingIsRight ==
    /\ EmittedOnce(KeyIdCodes)
    /\ Emitted("CA_Relationship_AKI_UncheckableNoCASKI") <=> (IssuerSKI = None)
    /\ Emitted("CA_Relationship_AKI_KeyIDMismatch")
          <=> (IssuerSKI # None /\ Some(IssuerSKI[1].keyid) # SubjectAKI[1].keyid)
    /\ Emitted("CA_Relationship_AKI_KeyIDMatch")
          <=> (IssuerSKI # None /\ Some(IssuerSKI[1].keyid) = SubjectAKI[1].keyid)

\* C5: when the subject's AKI carries a key id the analysis emits exactly one of
\* UncheckableNoCASKI (issuer without SKI), KeyIDMismatch (SKI with another key id),
\* KeyIDMatch (SKI with the same key id); without an AKI or without a key id in it,
\* none of the three.
C5_KeyIdExactlyOneCode ==
    Analyzed =>
        IF SubjectAKI # None /\ SubjectAKI[1].keyid # None
        THEN KeyIdFindingIsRight
        ELSE \A code \in KeyIdCodes : ~Emitted(code)

\* the key-id finding is right in every analysis that returns
KeyIdRightWhenReturned ==
    (Analyzed /\ Returned /\ SubjectAKI # None /\ SubjectAKI[1].keyid # None) =>
        KeyIdFindingIsRight

SubjectIssuerCodes ==
    {"CA_Relationship_SubjectIssuerMatch", "CA_Relationship_SubjectIssuerMismatch"}

SubjectIssuerFindingIsRight ==
    /\ EmittedOnce(SubjectIssuerCodes)
    /\ Emitted("CA_Relationship_SubjectIssuerMatch")
          <=> (arg.certificate.issuer = arg.ca_certificate.subject)

\* C11: every analysed pair has exactly one of SubjectIssuerMatch / SubjectIssuerMismatch
\* in its result, Match iff the subject's issuer DN equals the issuer's subject DN, and
\* the name finding comes together with the AKI and signature findings: equal DNs, an
\* AKI key id that differs from the issuer's SKI key id and a failing signature give
\* SubjectIssuerMatch, AKI_KeyIDMismatch and SignatureVerificationFailure in one result.
C11_SubjectIssuerFindingWithOthers ==
    Analyzed =>
        /\ SubjectIssuerFindingIsRight
        /\ (/\ arg.certificate.issuer = arg.ca_certificate.subject
            /\ SubjectAKI # None /\ SubjectAKI[1].keyid # None
            /\ IssuerSKI # None /\ Some(IssuerSKI[1].keyid) # SubjectAKI[1].keyid
            /\ ~arg.certificate.signed_by_ca) =>
                /\ Emitted("CA_Relationship_SubjectIssuerMatch")
                /\ Emitted("CA_Relationship_AKI_KeyIDMismatch")
                /\ Emitted("CA_Relationship_SignatureVerificationFailure")

\* the name finding is right in every analysis that returns
SubjectIssuerRightWhenReturned == (Analyzed /\ Returned) => SubjectIssuerFindingIsRight

\* ------------------------------------------------------- _judge_signature

\* `openssl verify` error codes are 0..MaxErrorCode, chain depths 0..MaxDepth
MaxErrorCode == 4
MaxDepth == 2

\* X509Certificate.py 66, 73-76: what SubprocessExecutor.run returned: the exit
\* status, and the (error_code, depth) that _CERT_VERIFY_REGEX finds in the output
\* (None: no match)
OpenSSLVerifyResults ==
    [success : BOOLEAN,
     result : Optional([error_code : 0 .. MaxErrorCode, depth : 0 .. MaxDepth])]

\* X509Certificate.py 58-83: signed_by, from the result of `openssl verify`
signed_by(verify) ==
    IF verify.success THEN TRUE
    ELSE IF verify.result # None
    THEN verify.result[1].error_code = 2 /\ verify.result[1].depth = 1
    ELSE FALSE

InitSignature ==
    /\ pc = "start"
    /\ arg \in [verify : OpenSSLVerifyResults,
                ca_certificate : [is_ca_certificate : BOOLEAN]]
    /\ res = Return(<<>>)

JudgeSignature ==
    /\ pc = "start"
    /\ pc' = "judge_signature"
    /\ res' = judge_signature([signed_by_ca |-> signed_by(arg.verify)], arg.ca_certificate)
    /\ UNCHANGED arg

NextSignature == JudgeSignature

SpecSignature == InitSignature /\ [][NextSignature]_vars

\* openssl verified the signature: it succeeded, or only the chain above the issuer
\* could not be built (error 2 at depth 1)
VerifiedAsSigned ==
    \/ arg.verify.success
    \/ arg.verify.result # None /\ arg.verify.result[1] = [error_code |-> 2, depth |-> 1]

\* C12: _judge_signature emits exactly one of SignatureVerificationSuccess /
\* SignatureVerificationFailure, Success iff the subject is verified as signed by the
\* issuer, and CACertificateInvalidAsCA (once) iff the issuer is not a CA certificate,
\* whatever the verification gave.
C12_SignatureAndCAFindings ==
    pc = "judge_signature" =>
        /\ Returned
        /\ EmittedOnce({"CA_Relationship_SignatureVerificationSuccess",
                        "CA_Relationship_SignatureVerificationFailure"})
        /\ Emitted("CA_Relationship_SignatureVerificationSuccess") <=> VerifiedAsSigned
        /\ Count(res, "CA_Relationship_CACertificateInvalidAsCA")
              = (IF arg.ca_certificate.is_ca_certificate THEN 0 ELSE 1)

C12_Witness ==
    /\ pc = "judge_signature"
    /\ ~arg.ca_certificate.is_ca_certificate
    /\ ~arg.verify.success
    /\ arg.verify.result = Some([error_code |-> 2, depth |-> 1])
    /\ Codes(res) = {"CA_Relationship_CACertificateInvalidAsCA",
                     "CA_Relationship_SignatureVerificationSuccess"}

\* ------------------------------------------------- X509Extension construction

\* longest extension payload, in encoded values
MaxDataLen == 2

\* An extension payload (extnValue) is a sequence of encoded values; only the
\* universal tag of each value and whether it is well-formed DER matter here.
\* "garbage" is an octet run that is no DER value at all.
EncodedValues == {"OCTET STRING", "SEQUENCE", "BIT STRING", "garbage"}
Payloads == SeqsUpTo(EncodedValues, MaxDataLen)

\* 203-449: the registered handler classes, by _HANDLER_OID, with the universal
\* tag of their _ASN1_MODEL
KnownExtensions ==
    [SubjectKeyIdentifier |-> "OCTET STRING",
     AuthorityKeyIdentifier |-> "SEQUENCE",
     BasicConstraints |-> "SEQUENCE",
     ExtendedKeyUsage |-> "SEQUENCE",
     SubjectAlternativeName |-> "SEQUENCE",
     IssuerAlternativeName |-> "SEQUENCE",
     KeyUsage |-> "BIT STRING",
     NetscapeCertificateType |-> "BIT STRING",
     AuthorityInfoAccess |-> "SEQUENCE",
     CertificatePolicies |-> "SEQUENCE"]

RegisteredOIDs == DOMAIN KnownExtensions
UnknownOID == "1.2.3.4"

\* 102-106, 110: the handler's _ASN1_MODEL; None for the default class
ASN1_MODEL(oid) == IF oid \in RegisteredOIDs THEN Some(KnownExtensions[oid]) ELSE None

\* 123: pyasn1.codec.der.decoder.decode(data, asn1Spec = model) raises PyAsn1Error
\* on an empty substrate, on an undecodable value and on a tag the model does not
\* accept
DecodeRaises(data, model) == data = <<>> \/ Head(data) # model

\* 119-126: (_asn1, _not_decoded) after the try block
DecodedASN1(oid, data) ==
    IF ASN1_MODEL(oid) = None \/ DecodeRaises(data, ASN1_MODEL(oid)[1])
    THEN [asn1 |-> None, not_decoded |-> data]
    ELSE [asn1 |-> Some(Head(data)), not_decoded |-> Tail(data)]

HookReturns(attributes) == [raised |-> NoException, attributes |-> attributes]
HookRaises(exception) == [raised |-> exception, attributes |-> "none"]

\* a hook in which every use of self.asn1 is guarded by `is not None`
GuardedHook(attributes) == HookReturns(attributes)

\* The _decode_hook of each class, run on the value the try block left in
\* self._asn1.  A decoded value in this model is an empty OCTET STRING, an empty
\* SEQUENCE or an empty BIT STRING, so every attribute read from it is empty.
decode_hook(oid, asn1) ==
    CASE oid = "SubjectKeyIdentifier" ->
            \* 225: bytes(self.asn1)
            IF asn1 = None THEN HookRaises("TypeError") ELSE HookReturns("keyid")
      [] oid = "AuthorityKeyIdentifier" ->
            \* 264: self.asn1.getComponentByName(...)
            IF asn1 = None THEN HookRaises("AttributeError")
            ELSE HookReturns("keyid, ca_names, serial")
      [] oid = "ExtendedKeyUsage" ->
            \* 300-303: guarded
            GuardedHook("oids")
      [] oid \in {"SubjectAlternativeName", "IssuerAlternativeName"} ->
            \* 331-335: guarded
            GuardedHook("known_names")
      [] oid \in {"KeyUsage", "NetscapeCertificateType"} ->
            \* 369, 396: len(self._asn1) for the first named bit
            IF asn1 = None THEN HookRaises("TypeError") ELSE HookReturns("flags")
      [] oid = "AuthorityInfoAccess" ->
            \* 414: for item in self._asn1
            IF asn1 = None THEN HookRaises("TypeError") ELSE HookReturns("methods")
      [] oid = "CertificatePolicies" ->
            \* 442: for item in self._asn1
            IF asn1 = None THEN HookRaises("TypeError") ELSE HookReturns("policies")
      [] OTHER ->
            \* 177-178: X509Extension._decode_hook (also BasicConstraints): pass
            HookReturns("none")

\* 138: successfully_parsed
successfully_parsed(oid, asn1) == ASN1_MODEL(oid) # None /\ asn1 # None

\* 102-127: X509ExtensionRegistry.create -> X509Extension.__init__
X509ExtensionRegistry_create(oid, critical, data) ==
    LET decoded == DecodedASN1(oid, data)
        hook == decode_hook(oid, decoded.asn1)
    IN  IF hook.raised # NoException
        THEN [raised |-> hook.raised, extension |-> None]
        ELSE [raised |-> NoException,
              extension |-> Some([oid |-> oid, critical |-> critical, data |-> data,
                                  asn1 |-> decoded.asn1,
                                  not_decoded |-> decoded.not_decoded,
                                  successfully_parsed |-> successfully_parsed(oid, decoded.asn1),
                                  attributes |-> hook.attributes])]

InitExtension ==
    /\ pc = "start"
    /\ arg \in [oid : RegisteredOIDs \cup {UnknownOID}, critical : BOOLEAN, data : Payloads]
    /\ res = [raised |-> NoException, extension |-> None]

CreateExtension ==
    /\ pc = "start"
    /\ pc' = "create"
    /\ res' = X509ExtensionRegistry_create(arg.oid, arg.critical, arg.data)
    /\ UNCHANGED arg

NextExtension == CreateExtension

SpecExtension == InitExtension /\ [][NextExtension]_vars

\* C6: constructing an extension of a registered type from a payload that fails DER
\* decoding against the type's ASN.1 model does not raise and yields an extension
\* with asn1 = None, successfully_parsed = False and data equal to the raw payload.
C6_UndecodablePayloadYieldsExtension ==
    (/\ pc = "create"
     /\ arg.oid \in RegisteredOIDs
     /\ DecodeRaises(arg.data, KnownExtensions[arg.oid])) =>
        /\ res.raised = NoException
        /\ res.extension[1].asn1 = None
        /\ ~res.extension[1].successfully_parsed
        /\ res.extension[1].data = arg.data

\* ------------------------------------------------------ DSASecurityEstimator

\* DSA moduli p are 0..MaxP, generators g are 0..MaxP+1
MaxP == 11
\* DSA subgroup orders q are 0..MaxQ
MaxQ == 5

\* NumberTheory.is_probable_prime
is_probable_prime(n) == n > 1 /\ \A d \in 2 .. (n - 1) : n % d # 0

\* pow(base, exponent, modulus) for modulus > 0
RECURSIVE pow(_, _, _)
pow(base, exponent, modulus) ==
    IF exponent = 0 THEN 1 % modulus
    ELSE (base * pow(base, exponent - 1, modulus)) % modulus

\* 55, 59, 63, 70: `LiteratureReference(...)`: the name is neither imported nor
\* defined in EstimateDSA.py (22-29), so evaluating it raises NameError
LiteratureReference == Raise("NameError")

\* a finding whose `standard` is built by LiteratureReference before the judgement
FindingWithLiterature(violated, code) ==
    IF violated
    THEN Then(LiteratureReference, Return(<<Judgement(code, Some(0))>>))
    ELSE Return(<<>>)

\* 66-67: the generator check; reached only with p prime
judge_g_unverifiable(pubkey) ==
    IF pow(pubkey.g, pubkey.q, pubkey.p) # 1
    THEN Return(<<Judgement("DSA_Parameter_G_Unverifiable", None)>>)
    ELSE Return(<<>>)

\* 73-76: the security level from the "bits" estimator; its bit count is not modelled
judge_security_level(pubkey) == Return(<<Judgement("DSA_Security_Level", None)>>)

\* 87-91: result["specific"]["p"]["value"] = ... on a dict that has only "L" and "N"
include_raw_data_step(include_raw_data) ==
    IF include_raw_data THEN Raise("KeyError") ELSE Return(<<>>)

\* 48-92: DSASecurityEstimator.analyze, its "security" entry
DSA_analyze(pubkey, include_raw_data) ==
    Then(FindingWithLiterature(~is_probable_prime(pubkey.p), "DSA_Parameter_P_Not_Prime"),
    Then(FindingWithLiterature(~is_probable_prime(pubkey.q), "DSA_Parameter_Q_Not_Prime"),
    Then(FindingWithLiterature((pubkey.p - 1) % pubkey.q # 0, "DSA_Parameter_Q_No_Divisor_Of_P1"),
    Then(judge_g_unverifiable(pubkey),
    Then(FindingWithLiterature(pubkey.g <= 1 \/ pubkey.g >= pubkey.p, "DSA_Parameter_G_Invalid_Range"),
    Then(judge_security_level(pubkey),
         include_raw_data_step(include_raw_data)))))))

\* -------------------------------------------------------- PublicKeyEstimator

\* 32-41 with a judgement that gives no bits
error_curve_not_found_without_bits ==
    [raised |-> NoException,
     judgements |-> <<Judgement("ECC_Curve_Unknown", None)>>,
     pubkey_alg |-> None]

\* 32-41: _error_curve_not_found, the "security" and "pubkey_alg" entries of its result
error_curve_not_found ==
    [raised |-> NoException,
     judgements |-> <<Judgement("ECC_Curve_Unknown", Some(0))>>,
     pubkey_alg |-> None]

\* 54, 57, 60: the RSA and ECC estimators, whose findings are not modelled
delegate(estimator) == Return(<<Judgement(estimator, None)>>)

\* 43-63: PublicKeyEstimator.analyze, its "security" entry
PublicKey_analyze(pubkey, include_raw_data) ==
    IF pubkey.cryptosystem = "CurveNotFoundException" THEN error_curve_not_found
    ELSE IF pubkey.cryptosystem = "RSA" THEN delegate("rsa")
    ELSE IF pubkey.cryptosystem = "ECC_ECDSA" THEN delegate("ecc")
    ELSE IF pubkey.cryptosystem = "ECC_EdDSA" THEN delegate("ecc")
    ELSE Raise("LazyDeveloperException")

DSAPublicKeys == [cryptosystem : {"DSA"}, p : 0 .. MaxP, q : 0 .. MaxQ, g : 0 .. MaxP + 1]

\* certificate.pubkey: a key of one of the four cryptosystems, or the exception
\* raised while decoding it
PublicKeys ==
    DSAPublicKeys \cup
    [cryptosystem : {"RSA", "ECC_ECDSA", "ECC_EdDSA", "CurveNotFoundException"},
     p : {0}, q : {0}, g : {0}]

InitPublicKey ==
    /\ pc = "start"
    /\ arg \in [pubkey : PublicKeys, include_raw_data : BOOLEAN]
    /\ res = Return(<<>>)

AnalyzePublicKey ==
    /\ pc = "start"
    /\ pc' = "pubkey_analyze"
    /\ res' = PublicKey_analyze(arg.pubkey, arg.include_raw_data)
    /\ UNCHANGED arg

AnalyzeDSA ==
    /\ pc = "start"
    /\ arg.pubkey.cryptosystem = "DSA"
    /\ pc' = "dsa_analyze"
    /\ res' = DSA_analyze(arg.pubkey, arg.include_raw_data)
    /\ UNCHANGED arg

NextPublicKey == AnalyzePublicKey \/ AnalyzeDSA

SpecPublicKey == InitPublicKey /\ [][NextPublicKey]_vars

\* C7: public-key analysis of a certificate with a DSA key returns, with and
\* without include_raw_data, and its result contains the DSA security-level judgement.
C7_DSAKeyIsAnalyzed ==
    (pc = "pubkey_analyze" /\ arg.pubkey.cryptosystem = "DSA") =>
        /\ Returned
        /\ Emitted("DSA_Security_Level")

HasFinding(code) ==
    \E i \in DOMAIN res.judgements :
        res.judgements[i].code = code /\ res.judgements[i].bits = Some(0)

\* C9: DSASecurityEstimator.analyze returns for every key, and each of the five
\* parameter findings is present iff its own condition is violated: p not prime,
\* q not prime, q no divisor of p-1, g^q mod p # 1, g outside 1 < g < p (stated here
\* for keys with p, q > 0, without include_raw_data).
C9_DSAFindingsIndependent ==
    (pc = "dsa_analyze" /\ ~arg.include_raw_data /\ arg.pubkey.p > 0 /\ arg.pubkey.q > 0) =>
        /\ Returned
        /\ HasFinding("DSA_Parameter_P_Not_Prime") <=> ~is_probable_prime(arg.pubkey.p)
        /\ HasFinding("DSA_Parameter_Q_Not_Prime") <=> ~is_probable_prime(arg.pubkey.q)
        /\ HasFinding("DSA_Parameter_Q_No_Divisor_Of_P1")
              <=> ((arg.pubkey.p - 1) % arg.pubkey.q # 0)
        /\ Emitted("DSA_Parameter_G_Unverifiable")
              <=> (pow(arg.pubkey.g, arg.pubkey.q, arg.pubkey.p) # 1)
        /\ HasFinding("DSA_Parameter_G_Invalid_Range")
              <=> (arg.pubkey.g <= 1 \/ arg.pubkey.g >= arg.pubkey.p)

\* ------------------------------------------------------- ExtendedKeyUsage

\* longest encoded KeyPurposeId list
MaxOids == 3

KeyPurposeIds == {"anyExtendedKeyUsage", "id_kp_serverAuth", "id_kp_clientAuth"}

SeqToSet(s) == {s[i] : i \in DOMAIN s}

\* X509Extensions.py 299-303: X509ExtendedKeyUsageExtension._decode_hook: _oids is a
\* set built from the decoded SEQUENCE OF, the empty set when nothing was decoded
ExtendedKeyUsage_oids(asn1) == IF asn1 # None THEN SeqToSet(asn1[1]) ELSE {}

\* the extension object built from its encoded OID list (None: undecodable)
ExtendedKeyUsageExtension(critical, asn1) ==
    [oid |-> "ExtendedKeyUsage", critical |-> critical, asn1 |-> asn1,
     oids |-> ExtendedKeyUsage_oids(asn1)]

\* X509Extensions.py 305-307: key_usage_oids iterates over the set
key_usage_oids(extension) == extension.oids

\* X509Extensions.py 309-311: any_key_usage
any_key_usage(extension) == "anyExtendedKeyUsage" \in extension.oids

\* 348-363: _judge_extended_key_usage
judge_extended_key_usage(certificate) ==
    LET eku_ext == get_first(certificate.extensions, "ExtendedKeyUsage")
    IN  IF eku_ext = None THEN Return(<<>>)
        ELSE LET number_oids == Cardinality(key_usage_oids(eku_ext[1]))
                 number_unique_oids == Cardinality(key_usage_oids(eku_ext[1]))
                 empty == IF number_oids = 0
                          THEN <<Judgement("Cert_X509Ext_ExtKeyUsage_Empty", None)>>
                          ELSE <<>>
                 duplicate == IF number_oids # number_unique_oids
                              THEN <<Judgement("Cert_X509Ext_ExtKeyUsage_Duplicate", None)>>
                              ELSE <<>>
                 any_critical == IF any_key_usage(eku_ext[1]) /\ eku_ext[1].critical
                                 THEN <<Judgement("Cert_X509Ext_ExtKeyUsage_AnyUsageCritical", None)>>
                                 ELSE <<>>
             IN  Return(empty \o duplicate \o any_critical)

ExtendedKeyUsageExtensions ==
    {ExtendedKeyUsageExtension(critical, asn1) :
        critical \in BOOLEAN, asn1 \in Optional(SeqsUpTo(KeyPurposeIds, MaxOids))}

InitExtendedKeyUsage ==
    /\ pc = "start"
    /\ arg \in [extensions : ExtensionLists(ExtendedKeyUsageExtensions)]
    /\ res = Return(<<>>)

JudgeExtendedKeyUsage ==
    /\ pc = "start"
    /\ pc' = "judge_extended_key_usage"
    /\ res' = judge_extended_key_usage(arg)
    /\ UNCHANGED arg

NextExtendedKeyUsage == JudgeExtendedKeyUsage

SpecExtendedKeyUsage == InitExtendedKeyUsage /\ [][NextExtendedKeyUsage]_vars

EncodedOids == arg.extensions[1].asn1[1]

\* C8: for a certificate with a (decodable) ExtendedKeyUsage extension the judgement
\* emits ExtKeyUsage_Empty iff the encoded list holds no OID, ExtKeyUsage_Duplicate
\* iff some OID occurs more than once in the encoded list, ExtKeyUsage_AnyUsageCritical
\* iff anyExtendedKeyUsage is listed and the extension is critical; without the
\* extension none of the three.
C8_ExtendedKeyUsageFindings ==
    pc = "judge_extended_key_usage" =>
        /\ Returned
        /\ arg.extensions = <<>> =>
              /\ ~Emitted("Cert_X509Ext_ExtKeyUsage_Empty")
              /\ ~Emitted("Cert_X509Ext_ExtKeyUsage_Duplicate")
              /\ ~Emitted("Cert_X509Ext_ExtKeyUsage_AnyUsageCritical")
        /\ (arg.extensions # <<>> /\ arg.extensions[1].asn1 # None) =>
              /\ Emitted("Cert_X509Ext_ExtKeyUsage_Empty") <=> (Len(EncodedOids) = 0)
              /\ Emitted("Cert_X509Ext_ExtKeyUsage_Duplicate")
                    <=> (\E i, j \in DOMAIN EncodedOids : i # j /\ EncodedOids[i] = EncodedOids[j])
              /\ Emitted("Cert_X509Ext_ExtKeyUsage_AnyUsageCritical")
                    <=> (/\ \E i \in DOMAIN EncodedOids : EncodedOids[i] = "anyExtendedKeyUsage"
                         /\ arg.extensions[1].critical)

\* ------------------------------------------- Certificate Transparency SCTs

\* longest SignedCertificateTimestampList
MaxSCTs == 2
\* most octets of trailing data after the list
MaxTrailing == 1

\* SecurityJudgement.__init__: a judgement is a record of code, text, bits, verdict,
\* commonness, compatibility and standard; any other keyword argument is a TypeError
JudgementKeywords == {"bits", "verdict", "commonness", "compatibility", "standard"}

SecurityJudgement(code, keywords) ==
    IF keywords \subseteq JudgementKeywords
    THEN Return(<<Judgement(code, None)>>)
    ELSE Raise("TypeError")

\* A millisecond timestamp t is the pair <<t \div 10^6, t % 10^6>>, compared
\* in that order.
TimestampLessEq(a, b) == a[1] < b[1] \/ (a[1] = b[1] /\ a[2] <= b[2])

\* 672: 1262304000000 and 4102444799000
PlausibleTimestampMin == <<1262304, 0>>
PlausibleTimestampMax == <<4102444, 799000>>

\* 668-670: the version is no member of the SCTVersion enumeration
judge_sct_version(sct) ==
    IF sct.sct_version # "SCTVersion.v1"
    THEN SecurityJudgement("Cert_X509Ext_CertificateTransparencySCTs_SCT_UnknownVersion",
                           {"commonness", "comatibility", "standard"})
    ELSE Return(<<>>)

\* 672-673
judge_sct_timestamp(sct) ==
    IF ~(/\ TimestampLessEq(PlausibleTimestampMin, sct.timestamp)
         /\ TimestampLessEq(sct.timestamp, PlausibleTimestampMax))
    THEN SecurityJudgement("Cert_X509Ext_CertificateTransparencySCTs_SCT_ImplausibleTimestamp",
                           {"commonness"})
    ELSE Return(<<>>)

\* 675-677
judge_sct_hash(sct) ==
    IF sct.hash_algorithm \notin {"sha256"}
    THEN SecurityJudgement("Cert_X509Ext_CertificateTransparencySCTs_SCT_InvalidHashFunction",
                           {"commonness", "comatibility", "standard"})
    ELSE Return(<<>>)

\* 679-681
judge_sct_signature(sct) ==
    IF sct.sig_algorithm \notin {"ECDSA", "RSA"}
    THEN SecurityJudgement("Cert_X509Ext_CertificateTransparencySCTs_SCT_InvalidSignatureFunction",
                           {"commonness", "comatibility", "standard"})
    ELSE Return(<<>>)

\* 666-683: _judge_certificate_transparency_sct
judge_certificate_transparency_sct(sct) ==
    Then(judge_sct_version(sct),
    Then(judge_sct_timestamp(sct),
    Then(judge_sct_hash(sct),
         judge_sct_signature(sct))))

\* 697-699: the loop over the decoded list
RECURSIVE judge_each_sct(_)
judge_each_sct(payload) ==
    IF payload = <<>> THEN Return(<<>>)
    ELSE Then(judge_certificate_transparency_sct(Head(payload)), judge_each_sct(Tail(payload)))

\* 701-702
judge_trailing_data(scts_ext) ==
    IF scts_ext.not_decoded > 0
    THEN SecurityJudgement("Cert_X509Ext_CertificateTransparencySCTs_TrailingData", {"commonness"})
    ELSE Return(<<>>)

\* 685-704: _judge_certificate_transparency_scts
judge_certificate_transparency_scts(certificate) ==
    LET scts_ext == get_first(certificate.extensions, "CertificateTransparency")
    IN  IF scts_ext = None THEN Return(<<>>)
        ELSE IF scts_ext[1].malformed_asn1
        THEN SecurityJudgement("Cert_X509Ext_CertificateTransparencySCTs_ASN1Malformed",
                               {"commonness", "compatibility", "standard"})
        ELSE IF scts_ext[1].malformed_payload
        THEN SecurityJudgement("Cert_X509Ext_CertificateTransparencySCTs_ContentMalformed",
                               {"commonness", "compatibility", "standard"})
        ELSE Then(judge_each_sct(scts_ext[1].payload), judge_trailing_data(scts_ext[1]))

\* one decoded SignedCertificateTimestamp: the version is the enumeration member v1
\* or a bare number; the timestamps are the ends of the plausible range and their
\* neighbours
SCTs ==
    [sct_version : {"SCTVersion.v1", "1"},
     timestamp : {<<1262303, 999999>>, <<1262304, 0>>, <<4102444, 799000>>, <<4102444, 799001>>},
     hash_algorithm : {"sha256", "sha384"},
     sig_algorithm : {"ECDSA", "RSA", "ed25519"}]

SCTExtensions ==
    [oid : {"CertificateTransparency"}, malformed_asn1 : {FALSE}, malformed_payload : {FALSE},
     payload : SeqsUpTo(SCTs, MaxSCTs), not_decoded : 0 .. MaxTrailing]
    \cup
    [oid : {"CertificateTransparency"}, malformed_asn1 : {TRUE}, malformed_payload : {FALSE},
     payload : {<<>>}, not_decoded : {0}]
    \cup
    [oid : {"CertificateTransparency"}, malformed_asn1 : {FALSE}, malformed_payload : {TRUE},
     payload : {<<>>}, not_decoded : {0}]

InitSCTs ==
    /\ pc = "start"
    /\ arg \in [extensions : ExtensionLists(SCTExtensions)]
    /\ res = Return(<<>>)

JudgeSCTs ==
    /\ pc = "start"
    /\ pc' = "judge_certificate_transparency_scts"
    /\ res' = judge_certificate_transparency_scts(arg)
    /\ UNCHANGED arg

NextSCTs == JudgeSCTs

SpecSCTs == InitSCTs /\ [][NextSCTs]_vars

DecodedSCTs == arg.extensions[1].payload
NumberOfSCTs(P(_)) == Cardinality({i \in DOMAIN DecodedSCTs : P(DecodedSCTs[i])})

VersionNotV1(sct) == sct.sct_version # "SCTVersion.v1"
TimestampImplausible(sct) ==
    \/ sct.timestamp[1] < 1262304
    \/ sct.timestamp[1] > 4102444
    \/ (sct.timestamp[1] = 4102444 /\ sct.timestamp[2] > 799000)
HashNotSHA256(sct) == sct.hash_algorithm # "sha256"
SignatureNotECDSANorRSA(sct) == sct.sig_algorithm # "ECDSA" /\ sct.sig_algorithm # "RSA"

\* C10: for every decodable SCT list the judgement returns, and for each SCT it holds
\* SCT_UnknownVersion iff the version is not v1, SCT_ImplausibleTimestamp iff the
\* timestamp is outside [1262304000000, 4102444799000], SCT_InvalidHashFunction iff
\* the hash is not SHA-256, SCT_InvalidSignatureFunction iff the signature algorithm
\* is neither ECDSA nor RSA: each code occurs once per SCT that violates its check.
C10_SCTChecksIndependent ==
    (/\ pc = "judge_certificate_transparency_scts"
     /\ arg.extensions # <<>>
     /\ ~arg.extensions[1].malformed_asn1 /\ ~arg.extensions[1].malformed_payload) =>
        /\ Returned
        /\ Count(res, "Cert_X509Ext_CertificateTransparencySCTs_SCT_UnknownVersion")
              = NumberOfSCTs(VersionNotV1)
        /\ Count(res, "Cert_X509Ext_CertificateTransparencySCTs_SCT_ImplausibleTimestamp")
              = NumberOfSCTs(TimestampImplausible)
        /\ Count(res, "Cert_X509Ext_CertificateTransparencySCTs_SCT_InvalidHashFunction")
              = NumberOfSCTs(HashNotSHA256)
        /\ Count(res, "Cert_X509Ext_CertificateTransparencySCTs_SCT_InvalidSignatureFunction")
              = NumberOfSCTs(SignatureNotECDSANorRSA)

\* ------------------------------- CrtExtensionsSecurityEstimator: its inputs

\* pathLenConstraint values are 0..MaxPathLen
MaxPathLen == 1
\* certificate versions are 1..MaxVersion
MaxVersion == 3
\* longest list of extensions that the estimator does not look into
MaxExtensions == 4

\* two of the nine named bits of rfc5280.KeyUsage
KeyUsageFlags == {"digitalSignature", "keyCertSign"}

\* EstimateCertificateExtensions.py 311-331: the KeyUsage extension as
\* _judge_key_usage reads it: critical, malformed, has_trailing_zero, all_bits_zero,
\* unknown_flags_set, flags.  An undecodable extension has no bits; all_bits_zero
\* means that no bit, named or not, is set.
KeyUsageExtensions ==
    {e \in [oid : {"KeyUsage"}, critical : BOOLEAN, malformed : BOOLEAN,
            has_trailing_zero : BOOLEAN, all_bits_zero : BOOLEAN,
            unknown_flags_set : BOOLEAN, flags : SUBSET KeyUsageFlags] :
        IF e.malformed
        THEN e.flags = {} /\ ~e.has_trailing_zero /\ ~e.all_bits_zero /\ ~e.unknown_flags_set
        ELSE e.all_bits_zero <=> (e.flags = {} /\ ~e.unknown_flags_set)}

\* X509Extensions.py 284-288: X509BasicConstraintsExtension.is_ca
is_ca(asn1) == IF asn1 # None THEN asn1[1].cA ELSE FALSE

\* X509BasicConstraintsExtension.pathlen, read at EstimateCertificateExtensions.py
\* 201: the decoded pathLenConstraint, None when absent or nothing was decoded
pathlen(asn1) == IF asn1 # None THEN asn1[1].pathLenConstraint ELSE None

\* X509Extensions.py 279-292: the extension object built from its decoded
\* BasicConstraints value (None: undecodable)
X509BasicConstraintsExtension(critical, asn1) ==
    [oid |-> "BasicConstraints", critical |-> critical, asn1 |-> asn1,
     is_ca |-> is_ca(asn1), pathlen |-> pathlen(asn1)]

BasicConstraintsExtensions ==
    {X509BasicConstraintsExtension(critical, asn1) :
        critical \in BOOLEAN,
        asn1 \in Optional([cA : BOOLEAN, pathLenConstraint : Optional(0 .. MaxPathLen)])}

\* extensions whose content the judgements below do not read
OtherExtensions ==
    [oid : {"NameConstraints", "CertificatePolicies", UnknownOID}, critical : BOOLEAN]

\* The certificate as the estimator reads it.  has_extensions_field is
\* certificate.asn1["tbsCertificate"]["extensions"].hasValue(), subject_empty is
\* certificate.subject.empty, inner_key the subjectPublicKey bit string.
PlainCertificate ==
    [version |-> 3, extensions |-> <<>>, has_extensions_field |-> FALSE,
     is_ca_certificate |-> FALSE, issuer_unique_id |-> None, subject_unique_id |-> None,
     subject_empty |-> FALSE, inner_key |-> "key1"]

\* certificates with KeyUsage and BasicConstraints extensions, in any order and
\* also repeated
KeyUsageCertificates ==
    {[PlainCertificate EXCEPT !.extensions = exts, !.has_extensions_field = TRUE,
                              !.is_ca_certificate = ca] :
        exts \in SeqsUpTo(KeyUsageExtensions \cup BasicConstraintsExtensions, 2),
        ca \in BOOLEAN}
\* ------------------------------------------------------- _judge_key_usage

\* 331-338 with the CA test made on the certificate instead of on BasicConstraints
judge_sign_cert_by_certificate(certificate, ku_ext) ==
    IF "keyCertSign" \notin ku_ext.flags THEN <<>>
    ELSE LET bc == get_first(certificate.extensions, "BasicConstraints")
         IN  IF bc = None
             THEN <<Judgement("Cert_X509Ext_KeyUsage_SignCertNoBasicConstraints", None)>>
             ELSE IF ~certificate.is_ca_certificate
             THEN <<Judgement("Cert_X509Ext_KeyUsage_SignCertNoCA", None)>>
             ELSE <<>>

\* 331-338: keyCertSign needs a BasicConstraints extension that asserts cA
judge_sign_cert(certificate, ku_ext) ==
    IF "keyCertSign" \notin ku_ext.flags THEN <<>>
    ELSE LET bc == get_first(certificate.extensions, "BasicConstraints")
         IN  IF bc = None
             THEN <<Judgement("Cert_X509Ext_KeyUsage_SignCertNoBasicConstraints", None)>>
             ELSE IF ~bc[1].is_ca
             THEN <<Judgement("Cert_X509Ext_KeyUsage_SignCertNoCA", None)>>
             ELSE <<>>

\* 307-346: _judge_key_usage
judge_key_usage(certificate) ==
    LET ku_ext == get_first(certificate.extensions, "KeyUsage")
        Finding(condition, code) == IF condition THEN <<Judgement(code, None)>> ELSE <<>>
    IN  IF ku_ext # None
        THEN IF ~ku_ext[1].malformed
             THEN Return(
                    Finding(ku_ext[1].has_trailing_zero, "Cert_X509Ext_KeyUsage_TrailingZeros")
                 \o Finding(ku_ext[1].all_bits_zero, "Cert_X509Ext_KeyUsage_Empty")
                 \o Finding(ku_ext[1].unknown_flags_set, "Cert_X509Ext_KeyUsage_TooLong")
                 \o Finding(~ku_ext[1].critical, "Cert_X509Ext_KeyUsage_NonCritical")
                 \o judge_sign_cert(certificate, ku_ext[1]))
             ELSE Return(<<Judgement("Cert_X509Ext_KeyUsage_Malformed", None)>>)
        ELSE Return(Finding(certificate.is_ca_certificate, "Cert_X509Ext_KeyUsage_Missing"))

\* ------------------------------------------------ _judge_basic_constraints

\* 201-212 with the KeyUsage test chained to the cA test by an elif
judge_path_len_elif(certificate, bc) ==
    IF bc.pathlen = None THEN <<>>
    ELSE LET ku_ext == get_first(certificate.extensions, "KeyUsage")
         IN  IF ~bc.is_ca
             THEN <<Judgement("Cert_X509Ext_BasicConstraints_PathLenWithoutCA", None)>>
             ELSE IF ku_ext = None \/ "keyCertSign" \notin ku_ext[1].flags
             THEN <<Judgement("Cert_X509Ext_BasicConstraints_PathLenWithoutKeyCertSign", None)>>
             ELSE <<>>

\* 201-212: a pathLenConstraint needs cA and a KeyUsage with keyCertSign
judge_path_len(certificate, bc) ==
    IF bc.pathlen = None THEN <<>>
    ELSE LET ku_ext == get_first(certificate.extensions, "KeyUsage")
             without_ca ==
                 IF ~bc.is_ca
                 THEN <<Judgement("Cert_X509Ext_BasicConstraints_PathLenWithoutCA", None)>>
                 ELSE <<>>
             without_key_cert_sign ==
                 IF ku_ext = None
                 THEN <<Judgement("Cert_X509Ext_BasicConstraints_PathLenWithoutKeyCertSign", None)>>
                 ELSE IF "keyCertSign" \notin ku_ext[1].flags
                 THEN <<Judgement("Cert_X509Ext_BasicConstraints_PathLenWithoutKeyCertSign", None)>>
                 ELSE <<>>
         IN  without_ca \o without_key_cert_sign

\* 190-214: _judge_basic_constraints
judge_basic_constraints(certificate) ==
    LET bc == get_first(certificate.extensions, "BasicConstraints")
    IN  IF bc = None
        THEN Return(<<Judgement("Cert_X509Ext_BasicConstraints_Missing", None)>>)
        ELSE LET criticality ==
                     IF ~bc[1].critical
                     THEN <<Judgement("Cert_X509Ext_BasicConstraints_PresentButNotCritical", None)>>
                     ELSE <<Judgement("Cert_X509Ext_BasicConstraints_PresentAndCritical", None)>>
             IN  Return(criticality \o judge_path_len(certificate, bc[1]))

\* ------------------------------------------ _judge_subject_alternative_name

rfc822Name == [name |-> "rfc822Name", directory_name |-> "n/a"]

\* GeneralNameValidator(permissible_types = ..., errors = ...).validate(general_name):
\* a name whose type is not permissible gets the validator's "invalid_type" code; the
\* names of this model are well-formed values of their type
GeneralNameValidator_validate(permissible_types, invalid_type, general_name) ==
    IF general_name.name \notin permissible_types
    THEN <<Judgement(invalid_type, None)>>
    ELSE <<>>

\* X509Extensions.py 326-349: the extension object built from its decoded
\* GeneralNames (None: undecodable); _decode_hook leaves _known_names empty then
X509SubjectAlternativeNameExtension(critical, asn1) ==
    [oid |-> "SubjectAlternativeName", critical |-> critical, asn1 |-> asn1,
     known_names |-> IF asn1 = None THEN <<>> ELSE asn1[1]]

\* X509Extensions.py 337-339: name_count
name_count(extension) == Len(extension.known_names)

SubjectAlternativeNameExtensions ==
    {X509SubjectAlternativeNameExtension(critical, asn1) :
        critical \in BOOLEAN,
        asn1 \in Optional(SeqsUpTo({dNSName, rfc822Name, directoryName("CN=A")}, MaxNames))}

SubjectAlternativeNameCertificates ==
    {[PlainCertificate EXCEPT !.extensions = exts, !.has_extensions_field = TRUE,
                              !.subject_empty = empty] :
        exts \in ExtensionLists(SubjectAlternativeNameExtensions), empty \in BOOLEAN}

\* 373: the judgements of the validator over the names, in order
RECURSIVE validate_subject_alternative_names(_)
validate_subject_alternative_names(names) ==
    IF names = <<>> THEN <<>>
    ELSE GeneralNameValidator_validate({"iPAddress", "dNSName"},
                                       "Cert_X509Ext_SubjectAltName_UncommonIdentifier",
                                       Head(names))
         \o validate_subject_alternative_names(Tail(names))

\* 374-379 with the subject left out of the test
judge_san_criticality_ignoring_subject(certificate, san) ==
    IF san.critical
    THEN <<Judgement("Cert_X509Ext_SubjectAltName_Critical", None)>>
    ELSE <<Judgement("Cert_X509Ext_SubjectAltName_NotCritical", None)>>

\* 374-379: critical iff the subject is empty
judge_san_criticality(certificate, san) ==
    IF ~certificate.subject_empty /\ san.critical
    THEN <<Judgement("Cert_X509Ext_SubjectAltName_Critical", None)>>
    ELSE IF certificate.subject_empty /\ ~san.critical
    THEN <<Judgement("Cert_X509Ext_SubjectAltName_NotCritical", None)>>
    ELSE <<>>

\* 365-391: _judge_subject_alternative_name
judge_subject_alternative_name(certificate) ==
    LET san == get_first(certificate.extensions, "SubjectAlternativeName")
    IN  IF san = None
        THEN Return(<<Judgement("Cert_X509Ext_SubjectAltName_Missing", None)>>)
        ELSE LET empty ==
                     IF name_count(san[1]) = 0
                     THEN <<Judgement("Cert_X509Ext_SubjectAltName_Empty", None)>>
                     ELSE <<>>
                 email_only ==
                     IF /\ ~certificate.subject_empty
                        /\ {san[1].known_names[i].name : i \in DOMAIN san[1].known_names}
                              = {"rfc822Name"}
                     THEN <<Judgement("Cert_X509Ext_SubjectAltName_EmailOnly", None)>>
                     ELSE <<>>
             IN  Return(empty
                        \o validate_subject_alternative_names(san[1].known_names)
                        \o judge_san_criticality(certificate, san[1])
                        \o email_only)

\* -------------------------------------------- _judge_subject_key_identifier

\* hashlib.new(name).update(data).digest(): distinct (function, data) pairs have
\* distinct digests
digest(hashfnc, data) == [hashfnc |-> hashfnc, data |-> data]

\* PublicKey.py 40-44: PublicKey.keyid; hashlib.new raises ValueError for a function
\* the platform's hashlib does not provide
keyid(inner_key, hashfnc, unavailable) ==
    IF hashfnc \in unavailable
    THEN [raised |-> "ValueError", digest |-> None]
    ELSE [raised |-> NoException, digest |-> Some(digest(hashfnc, inner_key))]

\* 221 without md5
check_hashfncs_without_md5 ==
    <<"sha1", "sha256", "sha224", "sha384", "sha512",
      "sha3_256", "sha3_384", "sha3_512">>

\* 221: check_hashfncs, in the order tried
check_hashfncs ==
    <<"sha1", "sha256", "sha224", "sha384", "sha512", "md5",
      "sha3_256", "sha3_384", "sha3_512">>

\* 224-237: the for loop over the hash functions still to try, with its else branch
RECURSIVE try_hashfncs(_, _, _, _)
try_hashfncs(hashfncs, cert_ski, inner_key, unavailable) ==
    IF hashfncs = <<>>
    THEN Judgement("Cert_X509Ext_SubjectKeyIdentifier_Arbitrary", None)
    ELSE LET hashfnc == Head(hashfncs)
             computed_ski == keyid(inner_key, hashfnc, unavailable)
         IN  IF computed_ski.raised = NoException /\ Some(cert_ski) = computed_ski.digest
             THEN IF hashfnc = "sha1"
                  THEN Judgement("Cert_X509Ext_SubjectKeyIdentifier_SHA1", None)
                  ELSE Judgement("Cert_X509Ext_SubjectKeyIdentifier_OtherHash", None)
             ELSE try_hashfncs(Tail(hashfncs), cert_ski, inner_key, unavailable)

\* 216-238: _judge_subject_key_identifier
judge_subject_key_identifier(certificate, unavailable) ==
    LET ski == get_first(certificate.extensions, "SubjectKeyIdentifier")
    IN  IF ski = None
        THEN Return(<<Judgement("Cert_X509Ext_SubjectKeyIdentifier_Missing", None)>>)
        ELSE Return(<<try_hashfncs(check_hashfncs, ski[1].keyid, certificate.inner_key,
                                   unavailable)>>)

\* key ids: digests of two keys under the tested functions and under one that is
\* not tested, and bytes that are no digest of the key
SubjectKeyIdentifierExtensions ==
    [oid : {"SubjectKeyIdentifier"},
     keyid : {digest(hashfnc, data) :
                 hashfnc \in {"sha1", "sha224", "sha256", "sha384", "sha512", "md5",
                              "sha3_224", "sha3_256", "sha3_384", "sha3_512"},
                 data \in {"key1", "key2"}}
             \cup {[hashfnc |-> "none", data |-> "arbitrary"]}]

SubjectKeyIdentifierCertificates ==
    {[PlainCertificate EXCEPT !.extensions = exts, !.has_extensions_field = TRUE,
                              !.inner_key = key] :
        exts \in ExtensionLists(SubjectKeyIdentifierExtensions), key \in {"key1", "key2"}}

\* ------------------------------------------ _judge_authority_key_identifier

\* 258, 260: len(aki.keyid), the digest size of the function that made the key id;
\* bytes that are no digest are as long as their data says
len_keyid(bytes) ==
    CASE bytes.hashfnc = "sha1" -> 20
      [] bytes.hashfnc = "sha512" -> 64
      [] OTHER -> IF bytes.data = "" THEN 0 ELSE 8

\* X509Extensions.py 263-275: each field is None when its component is absent from
\* the AuthorityKeyIdentifier; `malformed` is an attribute of the extension
AuthorityKeyIdentifierExtensions ==
    [oid : {"AuthorityKeyIdentifier"},
     critical : BOOLEAN,
     malformed : BOOLEAN,
     keyid : Optional({digest("sha1", "key1"), digest("sha1", "key2"),
                       digest("sha512", "key1"), [hashfnc |-> "none", data |-> ""]}),
     ca_names : Optional(SeqsUpTo(GeneralNames, MaxNames)),
     serial : Optional(Serials)]

AuthorityKeyIdentifierCertificates ==
    {[PlainCertificate EXCEPT !.extensions = exts, !.has_extensions_field = TRUE] :
        exts \in ExtensionLists(AuthorityKeyIdentifierExtensions)}

\* 281-282, 289: what is read of the root certificate
RootCertificates ==
    [extensions : ExtensionLists([oid : {"SubjectKeyIdentifier"},
                                  keyid : {digest("sha1", "key1"), digest("sha1", "key2")}]),
     serial : Serials]

\* 271-272: the validator's judgements of the names, in order
RECURSIVE validate_ca_names(_)
validate_ca_names(names) ==
    IF names = <<>> THEN <<>>
    ELSE GeneralNameValidator_validate(
             {"directoryName"},
             "Cert_X509Ext_AuthorityKeyIdentifier_CAName_UncommonIdentifier",
             Head(names))
         \o validate_ca_names(Tail(names))

\* 274-279 with a bare `elif aki.serial is None`
judge_aki_name_and_serial_elif(aki) ==
    IF aki.ca_names = None /\ aki.serial # None
    THEN <<Judgement("Cert_X509Ext_AuthorityKeyIdentifier_SerialWithoutName", None)>>
    ELSE IF aki.serial = None
    THEN <<Judgement("Cert_X509Ext_AuthorityKeyIdentifier_NameWithoutSerial", None)>>
    ELSE <<>>

\* 274-279: authorityCertIssuer and authorityCertSerialNumber, one without the other
judge_aki_name_and_serial(aki) ==
    IF aki.ca_names = None /\ aki.serial # None
    THEN <<Judgement("Cert_X509Ext_AuthorityKeyIdentifier_SerialWithoutName", None)>>
    ELSE IF aki.ca_names # None /\ aki.serial = None
    THEN <<Judgement("Cert_X509Ext_AuthorityKeyIdentifier_NameWithoutSerial", None)>>
    ELSE <<>>

\* 240-292: _judge_authority_key_identifier; both branches of line 244 add the
\* same code
judge_authority_key_identifier(certificate, root_cert) ==
    LET found == get_first(certificate.extensions, "AuthorityKeyIdentifier")
        aki == found[1]
        \* 253-255
        critical ==
            IF aki.critical
            THEN <<Judgement("Cert_X509Ext_AuthorityKeyIdentifier_Critical", None)>>
            ELSE <<>>
        \* 256-260
        keyid_length ==
            IF aki.keyid = None
            THEN <<Judgement("Cert_X509Ext_AuthorityKeyIdentifier_NoKeyIDPresent", None)>>
            ELSE IF len_keyid(aki.keyid[1]) = 0
            THEN <<Judgement("Cert_X509Ext_AuthorityKeyIdentifier_KeyIDEmpty", None)>>
            ELSE IF len_keyid(aki.keyid[1]) > 32
            THEN <<Judgement("Cert_X509Ext_AuthorityKeyIdentifier_KeyIDLong", None)>>
            ELSE <<>>
        \* 261-262
        malformed ==
            IF aki.malformed
            THEN <<Judgement("Cert_X509Ext_AuthorityKeyIdentifier_Malformed", None)>>
            ELSE <<>>
        \* 264-265
        empty ==
            IF aki.keyid = None /\ aki.ca_names = None /\ aki.serial = None
            THEN <<Judgement("Cert_X509Ext_AuthorityKeyIdentifier_Empty", None)>>
            ELSE <<>>
        \* 267-272
        ca_names ==
            IF aki.ca_names # None
            THEN (IF Len(aki.ca_names[1]) = 0
                  THEN <<Judgement("Cert_X509Ext_AuthorityKeyIdentifier_CAName_Empty", None)>>
                  ELSE <<>>)
                 \o validate_ca_names(aki.ca_names[1])
            ELSE <<>>
        \* 281-291
        root_ski == get_first(root_cert[1].extensions, "SubjectKeyIdentifier")
        against_root ==
            IF root_cert = None THEN <<>>
            ELSE IF root_ski = None
            THEN <<Judgement("Cert_X509Ext_AuthorityKeyIdentifier_CA_NoSKI", None)>>
            ELSE (IF aki.keyid # None /\ aki.keyid[1] # root_ski[1].keyid
                  THEN <<Judgement("Cert_X509Ext_AuthorityKeyIdentifier_CA_KeyIDMismatch", None)>>
                  ELSE <<>>)
                 \o (IF aki.serial # None /\ aki.serial[1] # root_cert[1].serial
                     THEN <<Judgement("Cert_X509Ext_AuthorityKeyIdentifier_CA_SerialMismatch", None)>>
                     ELSE <<>>)
    IN  IF found = None
        THEN Return(<<Judgement("Cert_X509Ext_AuthorityKeyIdentifier_Missing", None)>>)
        ELSE Return(critical \o keyid_length \o malformed \o empty \o ca_names
                    \o judge_aki_name_and_serial(aki) \o against_root)

\* ------------------------- _judge_may_have_exts, _judge_unique_id, _judge_uniqueness

\* certificates of every version, with and without unique ids and extensions;
\* without extensions the field may still be there, as an empty SEQUENCE
VersionedCertificates ==
    {certificate \in
        {[PlainCertificate EXCEPT !.version = version, !.extensions = exts,
                                  !.has_extensions_field = field, !.is_ca_certificate = ca,
                                  !.issuer_unique_id = issuer_unique_id,
                                  !.subject_unique_id = subject_unique_id] :
            version \in 1 .. MaxVersion,
            exts \in ExtensionLists(OtherExtensions),
            field \in BOOLEAN,
            ca \in BOOLEAN,
            issuer_unique_id \in Optional({"issuer-uid"}),
            subject_unique_id \in Optional({"subject-uid"})} :
        Len(certificate.extensions) > 0 => certificate.has_extensions_field}

\* certificates whose extensions are in any order and also repeated
RepeatedExtensionCertificates ==
    {[PlainCertificate EXCEPT !.extensions = exts, !.has_extensions_field = TRUE] :
        exts \in SeqsUpTo(OtherExtensions, MaxExtensions)}

\* 124-134 with `certificate.version <= 3`
judge_may_have_exts_le(certificate) ==
    Return((IF certificate.version <= 3 /\ Len(certificate.extensions) > 0
            THEN <<Judgement("Cert_X509Ext_NotAllowed", None)>>
            ELSE <<>>)
           \o (IF Len(certificate.extensions) = 0 /\ certificate.has_extensions_field
               THEN <<Judgement("Cert_X509Ext_EmptySequence", None)>>
               ELSE <<>>))

\* 124-134: _judge_may_have_exts
judge_may_have_exts(certificate) ==
    Return((IF certificate.version < 3 /\ Len(certificate.extensions) > 0
            THEN <<Judgement("Cert_X509Ext_NotAllowed", None)>>
            ELSE <<>>)
           \o (IF Len(certificate.extensions) = 0 /\ certificate.has_extensions_field
               THEN <<Judgement("Cert_X509Ext_EmptySequence", None)>>
               ELSE <<>>))

\* 159-162, 166-169: one judgement of that code for each unique id present
judge_unique_ids_present(certificate, code) ==
    (IF certificate.issuer_unique_id # None THEN <<Judgement(code, None)>> ELSE <<>>)
    \o (IF certificate.subject_unique_id # None THEN <<Judgement(code, None)>> ELSE <<>>)

\* 155-175 with `if certificate.is_ca_certificate` at line 164
judge_unique_id_if(certificate) ==
    Return((IF certificate.version \notin {2, 3}
            THEN judge_unique_ids_present(certificate, "Cert_UniqueID_NotAllowed")
            ELSE <<>>)
           \o (IF certificate.is_ca_certificate
               THEN judge_unique_ids_present(certificate, "Cert_UniqueID_NotAllowedForCA")
               ELSE <<>>)
           \o (IF /\ Len(certificate.extensions) = 0
                  /\ (certificate.issuer_unique_id # None \/ certificate.subject_unique_id # None)
                  /\ certificate.version # 2
               THEN <<Judgement("Cert_Version_Not_2", None)>>
               ELSE <<>>))

\* 155-175: _judge_unique_id
judge_unique_id(certificate) ==
    Return((IF certificate.version \notin {2, 3}
            THEN judge_unique_ids_present(certificate, "Cert_UniqueID_NotAllowed")
            ELSE IF certificate.is_ca_certificate
            THEN judge_unique_ids_present(certificate, "Cert_UniqueID_NotAllowedForCA")
            ELSE <<>>)
           \o (IF /\ Len(certificate.extensions) = 0
                  /\ (certificate.issuer_unique_id # None \/ certificate.subject_unique_id # None)
                  /\ certificate.version # 2
               THEN <<Judgement("Cert_Version_Not_2", None)>>
               ELSE <<>>))

\* 180-188: the loop over the extensions still to visit, with the OIDs seen so
\* far; the judgement's text names the OID found again
RECURSIVE find_duplicate(_, _)
find_duplicate(extensions, have_oids) ==
    IF extensions = <<>>
    THEN [code |-> "Cert_X509Ext_All_Unique", bits |-> None, oid |-> None]
    ELSE IF Head(extensions).oid \in have_oids
    THEN [code |-> "Cert_X509Ext_Duplicate", bits |-> None, oid |-> Some(Head(extensions).oid)]
    ELSE find_duplicate(Tail(extensions), have_oids \cup {Head(extensions).oid})

\* 177-188 without the break at line 184: the else branch of the loop then always runs
judge_uniqueness_without_break(certificate) ==
    Return(<<find_duplicate(<<>>, {})>>)

\* 177-188: _judge_uniqueness
judge_uniqueness(certificate) ==
    Return(<<find_duplicate(certificate.extensions, {})>>)

\* ------------------------------------ _judge_certificate_transparency_poison

\* certificates with the precertificate poison extension: its payload is
\* undecodable (malformed, no asn1) or decodes to a value of some ASN.1 type
PoisonCertificates ==
    {[PlainCertificate EXCEPT !.extensions = exts, !.has_extensions_field = TRUE] :
        exts \in ExtensionLists(
            {ext \in [oid : {"CertificateTransparencyPrecertificatePoison"},
                      critical : BOOLEAN,
                      malformed : BOOLEAN,
                      asn1 : Optional({"Null", "Integer"})] :
                ext.malformed <=> ext.asn1 = None})}

\* 706-724 with `if poison_ext.critical` at line 712
judge_certificate_transparency_poison_critical(certificate) ==
    LET found == get_first(certificate.extensions, "CertificateTransparencyPrecertificatePoison")
        poison_ext == found[1]
    IN  IF found = None THEN Return(<<>>)
        ELSE Return(
            <<Judgement("Cert_X509Ext_CertificateTransparencyPoison_IsPrecertificate", Some(0))>>
            \o (IF poison_ext.critical
                THEN <<Judgement("Cert_X509Ext_CertificateTransparencyPoison_NotCritical", None)>>
                ELSE <<>>)
            \o (IF poison_ext.malformed
                THEN <<Judgement("Cert_X509Ext_CertificateTransparencyPoison_MalformedPayload", None)>>
                ELSE IF poison_ext.asn1 # Some("Null")
                THEN <<Judgement("Cert_X509Ext_CertificateTransparencyPoison_InvalidPayload", None)>>
                ELSE <<>>))

\* 706-724: _judge_certificate_transparency_poison
judge_certificate_transparency_poison(certificate) ==
    LET found == get_first(certificate.extensions, "CertificateTransparencyPrecertificatePoison")
        poison_ext == found[1]
    IN  IF found = None THEN Return(<<>>)
        ELSE Return(
            <<Judgement("Cert_X509Ext_CertificateTransparencyPoison_IsPrecertificate", Some(0))>>
            \o (IF ~poison_ext.critical
                THEN <<Judgement("Cert_X509Ext_CertificateTransparencyPoison_NotCritical", None)>>
                ELSE <<>>)
            \o (IF poison_ext.malformed
                THEN <<Judgement("Cert_X509Ext_CertificateTransparencyPoison_MalformedPayload", None)>>
                ELSE IF poison_ext.asn1 # Some("Null")
                THEN <<Judgement("Cert_X509Ext_CertificateTransparencyPoison_InvalidPayload", None)>>
                ELSE <<>>))

\* --------------------------------- CrtExtensionsSecurityEstimator: its steps

Certificates ==
    KeyUsageCertificates
    \cup SubjectAlternativeNameCertificates
    \cup VersionedCertificates
    \cup RepeatedExtensionCertificates
    \cup PoisonCertificates

\* analyze(certificate, root_cert) and the platform it runs on: the hash functions
\* that hashlib does not provide there
EstimatorArguments ==
    [certificate : Certificates, root_cert : {None}, hashlib_unavailable : {{}}]
    \cup [certificate : SubjectKeyIdentifierCertificates, root_cert : {None},
          hashlib_unavailable : {{}, {"md5"}}]
    \cup [certificate : AuthorityKeyIdentifierCertificates,
          root_cert : Optional(RootCertificates), hashlib_unavailable : {{}}]

InitCertificateExtensions ==
    /\ pc = "start"
    /\ arg \in EstimatorArguments
    /\ res = Return(<<>>)

JudgeKeyUsage ==
    /\ pc = "start"
    /\ pc' = "judge_key_usage"
    /\ res' = judge_key_usage(arg.certificate)
    /\ UNCHANGED arg

JudgeBasicConstraints ==
    /\ pc = "start"
    /\ pc' = "judge_basic_constraints"
    /\ res' = judge_basic_constraints(arg.certificate)
    /\ UNCHANGED arg

JudgeSubjectAlternativeName ==
    /\ pc = "start"
    /\ pc' = "judge_subject_alternative_name"
    /\ res' = judge_subject_alternative_name(arg.certificate)
    /\ UNCHANGED arg

JudgeSubjectKeyIdentifier ==
    /\ pc = "start"
    /\ pc' = "judge_subject_key_identifier"
    /\ res' = judge_subject_key_identifier(arg.certificate, arg.hashlib_unavailable)
    /\ UNCHANGED arg

JudgeAuthorityKeyIdentifier ==
    /\ pc = "start"
    /\ pc' = "judge_authority_key_identifier"
    /\ res' = judge_authority_key_identifier(arg.certificate, arg.root_cert)
    /\ UNCHANGED arg

JudgeMayHaveExts ==
    /\ pc = "start"
    /\ pc' = "judge_may_have_exts"
    /\ res' = judge_may_have_exts(arg.certificate)
    /\ UNCHANGED arg

JudgeUniqueId ==
    /\ pc = "start"
    /\ pc' = "judge_unique_id"
    /\ res' = judge_unique_id(arg.certificate)
    /\ UNCHANGED arg

JudgeUniqueness ==
    /\ pc = "start"
    /\ pc' = "judge_uniqueness"
    /\ res' = judge_uniqueness(arg.certificate)
    /\ UNCHANGED arg

JudgeCertificateTransparencyPoison ==
    /\ pc = "start"
    /\ pc' = "judge_certificate_transparency_poison"
    /\ res' = judge_certificate_transparency_poison(arg.certificate)
    /\ UNCHANGED arg

NextCertificateExtensions ==
    \/ JudgeKeyUsage
    \/ JudgeBasicConstraints
    \/ JudgeSubjectAlternativeName
    \/ JudgeSubjectKeyIdentifier
    \/ JudgeAuthorityKeyIdentifier
    \/ JudgeMayHaveExts
    \/ JudgeUniqueId
    \/ JudgeUniqueness
    \/ JudgeCertificateTransparencyPoison

SpecCertificateExtensions == InitCertificateExtensions /\ [][NextCertificateExtensions]_vars

\* ------------------------------- CrtExtensionsSecurityEstimator: the claims

KeyUsageExt == get_first(arg.certificate.extensions, "KeyUsage")
BasicConstraintsExt == get_first(arg.certificate.extensions, "BasicConstraints")

KeyCertSignAsserted ==
    KeyUsageExt # None /\ ~KeyUsageExt[1].malformed /\ "keyCertSign" \in KeyUsageExt[1].flags

PathLenPresent == BasicConstraintsExt # None /\ BasicConstraintsExt[1].pathlen # None

SubjectAlternativeNameExt == get_first(arg.certificate.extensions, "SubjectAlternativeName")

SubjectKeyIdentifierExt == get_first(arg.certificate.extensions, "SubjectKeyIdentifier")

\* the hash functions of the claim that the platform could compute
TestedHashFunctions ==
    {"sha1", "sha224", "sha256", "sha384", "sha512", "md5",
     "sha3_256", "sha3_384", "sha3_512"} \ arg.hashlib_unavailable

KeyIdIsDigestUnder(hashfncs) ==
    \E hashfnc \in hashfncs :
        SubjectKeyIdentifierExt[1].keyid = digest(hashfnc, arg.certificate.inner_key)

\* C16: _judge_subject_key_identifier yields exactly one judgement:
\* SubjectKeyIdentifier_Missing iff the extension is absent; otherwise _SHA1 iff the key
\* id is the SHA-1 digest of the inner public-key bit string, _OtherHash iff it is not
\* but is the digest under another tested hash function, _Arbitrary iff it is the
\* digest under none of the tested functions.
C16_SubjectKeyIdentifierFinding ==
    pc = "judge_subject_key_identifier" =>
        /\ Returned
        /\ Len(res.judgements) = 1
        /\ Emitted("Cert_X509Ext_SubjectKeyIdentifier_Missing")
              <=> (SubjectKeyIdentifierExt = None)
        /\ SubjectKeyIdentifierExt # None =>
              /\ Emitted("Cert_X509Ext_SubjectKeyIdentifier_SHA1")
                    <=> KeyIdIsDigestUnder({"sha1"})
              /\ Emitted("Cert_X509Ext_SubjectKeyIdentifier_OtherHash")
                    <=> (/\ ~KeyIdIsDigestUnder({"sha1"})
                         /\ KeyIdIsDigestUnder(TestedHashFunctions \ {"sha1"}))
              /\ Emitted("Cert_X509Ext_SubjectKeyIdentifier_Arbitrary")
                    <=> ~KeyIdIsDigestUnder(TestedHashFunctions)

C16_Witness ==
    /\ pc = "judge_subject_key_identifier"
    /\ SubjectKeyIdentifierExt # None
    /\ SubjectKeyIdentifierExt[1].keyid = digest("md5", arg.certificate.inner_key)
    /\ arg.hashlib_unavailable = {}
    /\ Codes(res) = {"Cert_X509Ext_SubjectKeyIdentifier_OtherHash"}

AuthorityKeyIdentifierExt == get_first(arg.certificate.extensions, "AuthorityKeyIdentifier")

UniqueIdPresent ==
    arg.certificate.issuer_unique_id # None \/ arg.certificate.subject_unique_id # None

\* C18: _judge_unique_id: a unique id in a v1 certificate yields
\* Cert_UniqueID_NotAllowed; a unique id in a v3 CA certificate yields
\* Cert_UniqueID_NotAllowedForCA; the two codes are never both emitted; and
\* Cert_Version_Not_2 is emitted iff the certificate has no extensions, a unique id is
\* present and the version is not 2.
C18_UniqueIdFindings ==
    pc = "judge_unique_id" =>
        /\ Returned
        /\ (arg.certificate.version = 1 /\ UniqueIdPresent)
              => Emitted("Cert_UniqueID_NotAllowed")
        /\ (arg.certificate.version = 3 /\ arg.certificate.is_ca_certificate /\ UniqueIdPresent)
              => Emitted("Cert_UniqueID_NotAllowedForCA")
        /\ ~(Emitted("Cert_UniqueID_NotAllowed") /\ Emitted("Cert_UniqueID_NotAllowedForCA"))
        /\ Emitted("Cert_Version_Not_2")
              <=> (/\ Len(arg.certificate.extensions) = 0
                   /\ UniqueIdPresent
                   /\ arg.certificate.version # 2)

C18_Witness ==
    /\ pc = "judge_unique_id"
    /\ arg.certificate.version = 1
    /\ arg.certificate.is_ca_certificate
    /\ arg.certificate.subject_unique_id # None
    /\ Len(arg.certificate.extensions) = 0
    /\ Codes(res) = {"Cert_UniqueID_NotAllowed", "Cert_Version_Not_2"}

\* the positions of the extensions whose OID occurred at an earlier position
RepeatedOccurrences ==
    LET exts == arg.certificate.extensions
    IN  {i \in DOMAIN exts : \E j \in 1 .. i - 1 : exts[j].oid = exts[i].oid}

\* C19: _judge_uniqueness yields exactly one judgement for every extension list:
\* Cert_X509Ext_Duplicate iff some extension OID occurs more than once, reported for
\* the first repeated occurrence in source order, and Cert_X509Ext_All_Unique iff all
\* extension OIDs are pairwise distinct, the empty list included.
C19_OneUniquenessJudgement ==
    pc = "judge_uniqueness" =>
        /\ Returned
        /\ Len(res.judgements) = 1
        /\ Emitted("Cert_X509Ext_Duplicate") <=> (RepeatedOccurrences # {})
        /\ Emitted("Cert_X509Ext_All_Unique") <=> (RepeatedOccurrences = {})
        /\ RepeatedOccurrences # {} =>
              \E i \in RepeatedOccurrences :
                  /\ \A j \in RepeatedOccurrences : i <= j
                  /\ res.judgements[1].oid = Some(arg.certificate.extensions[i].oid)

\* two OIDs are repeated, and the one repeated first is not the first extension's
C19_Witness ==
    /\ pc = "judge_uniqueness"
    /\ RepeatedOccurrences = {3, 4}
    /\ arg.certificate.extensions[4].oid = arg.certificate.extensions[1].oid
    /\ arg.certificate.extensions[3].oid # arg.certificate.extensions[1].oid
    /\ Codes(res) = {"Cert_X509Ext_Duplicate"}
    /\ res.judgements[1].oid = Some(arg.certificate.extensions[3].oid)

\* C20: _judge_may_have_exts emits Cert_X509Ext_NotAllowed iff the version is below 3
\* and at least one extension is present, and Cert_X509Ext_EmptySequence iff the
\* certificate has zero extensions while the extensions field is present in the
\* TBSCertificate; such a certificate is analysed without an exception, and the two
\* codes are never emitted together.
C20_MayHaveExtensions ==
    pc = "judge_may_have_exts" =>
        /\ Returned
        /\ Emitted("Cert_X509Ext_NotAllowed")
              <=> (arg.certificate.version < 3 /\ Len(arg.certificate.extensions) > 0)
        /\ Emitted("Cert_X509Ext_EmptySequence")
              <=> (/\ Len(arg.certificate.extensions) = 0
                   /\ arg.certificate.has_extensions_field)
        /\ ~(Emitted("Cert_X509Ext_NotAllowed") /\ Emitted("Cert_X509Ext_EmptySequence"))

C20_Witness ==
    /\ pc = "judge_may_have_exts"
    /\ Len(arg.certificate.extensions) = 0
    /\ arg.certificate.has_extensions_field
    /\ arg.certificate.version = 1
    /\ Codes(res) = {"Cert_X509Ext_EmptySequence"}

\* ------------------------------------------- _judge_crl_distribution_points

\* the longest list of distribution points
MaxPoints == 2

\* X509CRLDistributionPointsExtension.all_used_reasons(): the named bits of
\* ReasonFlags other than bit 0, "unused"; two of the eight
all_used_reasons == {"keyCompromise", "cACompromise"}

\* a bit of ReasonFlags beyond the named ones; the extension gives it as a number
UndefinedBit == "bit 9"

\* A distribution point as the estimator reads it: point_name is None, a list of
\* general names (with the URI schemes it holds) or a relative distinguished name;
\* crl_issuer is None or a list of general names; reasons is None or the set of
\* asserted bits.
DistributionPoints ==
    {point \in
        [point_name : Optional({[general_names |-> TRUE, uri_schemes |-> {"http"}],
                                [general_names |-> FALSE, uri_schemes |-> {}]}),
         point_name_rdn_malformed : BOOLEAN,
         crl_issuer : Optional({<<directoryName("CN=A")>>}),
         reasons : Optional({{"keyCompromise"}, all_used_reasons,
                             all_used_reasons \cup {"unused"},
                             {"keyCompromise", UndefinedBit}}),
         reasons_trailing_zero : BOOLEAN] :
        /\ point.point_name_rdn_malformed => point.point_name = None
        /\ point.reasons_trailing_zero
              => point.reasons \in {Some({"keyCompromise"}), Some(all_used_reasons)}}

\* the extension: malformed, or decoded into its points
CRLDistributionPointsExtensions ==
    [oid : {"CRLDistributionPoints"}, critical : BOOLEAN, malformed : {TRUE},
     points : {<<>>}]
    \cup [oid : {"CRLDistributionPoints"}, critical : BOOLEAN, malformed : {FALSE},
          points : SeqsUpTo(DistributionPoints, MaxPoints)]

\* 600-657: one pass of the loop body.  `standard` is a local of the function that
\* the branches assign before use, except line 655, which only reads it: bound
\* tells whether an earlier statement has assigned it.  Yields the judgements
\* added, whether the pass raised, whether `standard` is bound afterwards and
\* whether has_all_reasons was set.
judge_point(point, issuer, bound) ==
    LET no_name == point.point_name = None
        no_reasons == point.reasons = None
        no_issuer == point.crl_issuer = None
        \* 601-606
        empty == no_name /\ no_reasons /\ no_issuer
        only_reasons == no_name /\ ~no_reasons /\ no_issuer
        \* 607-612; the validator accepts the directoryName entries of the issuer
        redundant ==
            /\ ~no_issuer
            /\ \E i \in DOMAIN point.crl_issuer[1] :
                  /\ point.crl_issuer[1][i].name = "directoryName"
                  /\ point.crl_issuer[1][i].directory_name = issuer
        \* 614-624; the names are well-formed URIs of a DER CRL, for which lines
        \* 546-583 add nothing
        no_known_scheme ==
            /\ ~no_name
            /\ point.point_name[1].general_names
            /\ point.point_name[1].uri_schemes \cap {"ldap", "http"} = {}
        \* 626-629
        rdn_used == ~no_name /\ ~point.point_name[1].general_names
        \* 631-635: at most one directoryName among the CRL issuers here
        rdn_ambiguous == FALSE
        \* 637-639
        rdn_malformed == no_name /\ point.point_name_rdn_malformed
        \* 641-646
        missing_reasons == IF no_reasons THEN {} ELSE all_used_reasons \ point.reasons[1]
        segmentation == ~no_reasons /\ missing_reasons # {}
        \* 648-649
        unused == ~no_reasons /\ "unused" \in point.reasons[1]
        \* 651-654
        undefined_bits == ~no_reasons /\ UndefinedBit \in point.reasons[1]
        \* 656-657
        trailing == ~no_reasons /\ point.reasons_trailing_zero
        assigned ==
            \/ bound \/ empty \/ only_reasons \/ redundant \/ no_known_scheme
            \/ rdn_used \/ rdn_malformed \/ segmentation \/ undefined_bits
        Finding(condition, code) ==
            IF condition
            THEN <<Judgement("Cert_X509Ext_CRLDistributionPoints_" \o code, None)>>
            ELSE <<>>
        before_trailing ==
            Finding(empty, "Point_Empty")
            \o Finding(only_reasons, "Point_ContainsOnlyReasons")
            \o Finding(redundant, "CRLIssuer_RedundantlyPresent")
            \o Finding(no_known_scheme, "Point_NoLDAPOrHTTPURIPresent")
            \o Finding(rdn_used, "PointName_RDN_Used")
            \o Finding(rdn_ambiguous, "PointName_RDN_Ambiguous")
            \o Finding(rdn_malformed, "PointName_RDN_Malformed")
            \o Finding(segmentation, "Reasons_SegmentationUsed")
            \o Finding(unused, "Reasons_UnusedBitAsserted")
            \o Finding(undefined_bits, "Reasons_UndefinedBitAsserted")
    IN  [raised |-> IF trailing /\ ~assigned THEN "UnboundLocalError" ELSE NoException,
         judgements |-> before_trailing \o Finding(trailing, "Reasons_TrailingBits"),
         bound |-> assigned,
         has_all_reasons |-> no_reasons \/ missing_reasons = {}]

\* 598-659: the loop over the points still to visit
RECURSIVE judge_points(_, _, _)
judge_points(points, issuer, bound) ==
    IF points = <<>>
    THEN [raised |-> NoException, judgements |-> <<>>, has_all_reasons |-> FALSE]
    ELSE LET first == judge_point(Head(points), issuer, bound)
             rest == judge_points(Tail(points), issuer, first.bound)
         IN  IF first.raised # NoException
             THEN [raised |-> first.raised, judgements |-> <<>>, has_all_reasons |-> FALSE]
             ELSE [raised |-> rest.raised,
                   judgements |-> first.judgements \o rest.judgements,
                   has_all_reasons |-> first.has_all_reasons \/ rest.has_all_reasons]

\* 585-664: _judge_crl_distribution_points
judge_crl_distribution_points(certificate) ==
    LET found == get_first(certificate.extensions, "CRLDistributionPoints")
        cdp_ext == found[1]
        \* 589-591
        critical ==
            IF cdp_ext.critical
            THEN <<Judgement("Cert_X509Ext_CRLDistributionPoints_Critical", None)>>
            ELSE <<>>
        looped == judge_points(cdp_ext.points, certificate.issuer, cdp_ext.critical)
    IN  IF found = None THEN Return(<<>>)
        ELSE IF cdp_ext.malformed
        THEN Return(critical
                    \o <<Judgement("Cert_X509Ext_CRLDistributionPoints_Malformed", None)>>)
        ELSE IF looped.raised # NoException THEN Raise(looped.raised)
        ELSE Return(critical \o looped.judgements
                    \o (IF ~looped.has_all_reasons
                        THEN <<Judgement("Cert_X509Ext_CRLDistributionPoints_NoPointWithAllReasonBits", None)>>
                        ELSE <<>>))

InitCRLDistributionPoints ==
    /\ pc = "start"
    /\ arg \in [certificate : [issuer : {"CN=A"},
                               extensions : ExtensionLists(CRLDistributionPointsExtensions)]]
    /\ res = Return(<<>>)

JudgeCRLDistributionPoints ==
    /\ pc = "start"
    /\ pc' = "judge_crl_distribution_points"
    /\ res' = judge_crl_distribution_points(arg.certificate)
    /\ UNCHANGED arg

NextCRLDistributionPoints == JudgeCRLDistributionPoints

SpecCRLDistributionPoints ==
    InitCRLDistributionPoints /\ [][NextCRLDistributionPoints]_vars

CRLDistributionPointsExt == get_first(arg.certificate.extensions, "CRLDistributionPoints")

\* the positions of the points whose reasons field misses a used reason
SegmentedPoints ==
    LET points == CRLDistributionPointsExt[1].points
    IN  {i \in DOMAIN points :
            /\ points[i].reasons # None
            /\ ~(all_used_reasons \subseteq points[i].reasons[1])}

CRLDistributionPointsFindingsRight ==
    /\ Emitted("Cert_X509Ext_CRLDistributionPoints_NoPointWithAllReasonBits")
          <=> (/\ ~CRLDistributionPointsExt[1].malformed
               /\ SegmentedPoints = DOMAIN CRLDistributionPointsExt[1].points)
    /\ Count(res, "Cert_X509Ext_CRLDistributionPoints_Reasons_SegmentationUsed")
          = IF CRLDistributionPointsExt[1].malformed THEN 0
            ELSE Cardinality(SegmentedPoints)

\* C21: for a decodable CRLDistributionPoints extension, NoPointWithAllReasonBits is
\* emitted iff every distribution point has a reasons field from which a used reason
\* is missing (so also for no points), and Reasons_SegmentationUsed is emitted once
\* for each point whose reasons field misses a reason; for a malformed extension
\* neither code is emitted.
C21_CRLDistributionPointReasons ==
    (pc = "judge_crl_distribution_points" /\ CRLDistributionPointsExt # None) =>
        CRLDistributionPointsFindingsRight

\* the same, for the certificates on which the function returns
CRLDistributionPointReasonsWhenReturned ==
    (pc = "judge_crl_distribution_points" /\ CRLDistributionPointsExt # None /\ Returned) =>
        CRLDistributionPointsFindingsRight

PoisonExt == get_first(arg.certificate.extensions, "CertificateTransparencyPrecertificatePoison")
PoisonCodes ==
    {"Cert_X509Ext_CertificateTransparencyPoison_IsPrecertificate",
     "Cert_X509Ext_CertificateTransparencyPoison_NotCritical",
     "Cert_X509Ext_CertificateTransparencyPoison_MalformedPayload",
     "Cert_X509Ext_CertificateTransparencyPoison_InvalidPayload"}

MaxLabels == 3
MaxOctets == 17

\* BaseValidationResult._report: the issue is added to the result of the validation
report(issue) == <<Judgement(issue, None)>>

\* A domain name is the list of its labels (str_value.split(".")): a plain label, the
\* full-label wildcard, a label with a wildcard in it, an international label with a
\* wildcard in it, and a label with a character not allowed in domain names.
Labels == {"a", "*", "a*", "xn--a*", "a_b"}
WildcardLabels == {"*", "a*", "xn--a*"}

\* ValidationTools.validate_domainname_template: the defects of the template; a name
\* with several defects is reported with one of them
DomainnameTemplateValidationResults(labels) ==
    LET defects ==
            (IF \E i \in DOMAIN labels : labels[i] \in {"a_b", " "}
             THEN {"InvalidCharacter"} ELSE {})
            \cup (IF \E i \in DOMAIN labels : i > 1 /\ labels[i] = "*"
                  THEN {"FullWildcardNotLeftmost"} ELSE {})
            \cup (IF Cardinality({i \in DOMAIN labels : labels[i] \in WildcardLabels}) > 1
                  THEN {"MoreThanOneWildcard"} ELSE {})
            \cup (IF \E i \in DOMAIN labels : labels[i] = "xn--a*"
                  THEN {"WildcardInInternationalDomain"} ELSE {})
    IN  IF defects = {} THEN {"Valid"} ELSE defects

\* ValidationTools.validate_domainname, on the name in which line 112 has put "a"
\* for every "*": every label is a well-formed label without a wildcard
validate_domainname(labels, replaced) ==
    \A i \in DOMAIN labels :
        \/ labels[i] = "a"
        \/ replaced /\ labels[i] \in WildcardLabels

\* 83-116 without the returns of lines 92-98
validate_dNSName_without_return(subject, validator) ==
    report("Enc_DER_Struct_GenName_DNS_Unexpected")
    \o (IF subject.labels = <<" ">>
        THEN report("Enc_DER_Struct_GenName_DNS_OnlyWhitespace")
        ELSE (IF validator.allow_dnsname_wildcard_matches /\ subject.template # "Valid"
              THEN report(CASE subject.template = "InvalidCharacter" ->
                                   "Enc_DER_Struct_GenName_DNS_Malformed"
                            [] subject.template = "FullWildcardNotLeftmost" ->
                                   "Enc_DER_Struct_GenName_DNS_Wildcard_NotLeftmost"
                            [] subject.template = "MoreThanOneWildcard" ->
                                   "Enc_DER_Struct_GenName_DNS_Wildcard_MulitpleWildcards"
                            [] subject.template = "WildcardInInternationalDomain" ->
                                   "Enc_DER_Struct_GenName_DNS_Wildcard_InternationalLabel")
              ELSE <<>>)
             \o (IF /\ validator.allow_dnsname_wildcard_matches
                    /\ \E i \in DOMAIN subject.labels : subject.labels[i] \in WildcardLabels
                    /\ Len(subject.labels) <= 2
                 THEN report("Enc_DER_Struct_GenName_DNS_Wildcard_BroadMatch")
                 ELSE <<>>)
             \o (IF Len(subject.labels) < 2
                 THEN report("Enc_DER_Struct_GenName_DNS_SingleLabel")
                 ELSE <<>>)
             \o (IF ~validate_domainname(subject.labels,
                                         validator.allow_dnsname_wildcard_matches)
                 THEN report("Enc_DER_Struct_GenName_DNS_Malformed")
                 ELSE <<>>))

\* 83-116: _validate_dNSName; subject.template is the result of line 89
validate_dNSName(subject, validator) ==
    report("Enc_DER_Struct_GenName_DNS_Unexpected")
    \o (IF subject.labels = <<" ">>
        THEN report("Enc_DER_Struct_GenName_DNS_OnlyWhitespace")
        ELSE IF validator.allow_dnsname_wildcard_matches /\ subject.template # "Valid"
        THEN report(CASE subject.template = "InvalidCharacter" ->
                             "Enc_DER_Struct_GenName_DNS_Malformed"
                      [] subject.template = "FullWildcardNotLeftmost" ->
                             "Enc_DER_Struct_GenName_DNS_Wildcard_NotLeftmost"
                      [] subject.template = "MoreThanOneWildcard" ->
                             "Enc_DER_Struct_GenName_DNS_Wildcard_MulitpleWildcards"
                      [] subject.template = "WildcardInInternationalDomain" ->
                             "Enc_DER_Struct_GenName_DNS_Wildcard_InternationalLabel")
        ELSE (IF /\ validator.allow_dnsname_wildcard_matches
                 /\ \E i \in DOMAIN subject.labels : subject.labels[i] \in WildcardLabels
                 /\ Len(subject.labels) <= 2
              THEN report("Enc_DER_Struct_GenName_DNS_Wildcard_BroadMatch")
              ELSE <<>>)
             \o (IF Len(subject.labels) < 2
                 THEN report("Enc_DER_Struct_GenName_DNS_SingleLabel")
                 ELSE <<>>)
             \o (IF ~validate_domainname(subject.labels,
                                         validator.allow_dnsname_wildcard_matches)
                 THEN report("Enc_DER_Struct_GenName_DNS_Malformed")
                 ELSE <<>>))

\* 124-133 with the netmask of the private class B network one digit longer
private_networks_class_b_16 ==
    << <<(<<2560, 0>>), (<<65280, 0>>)>>,
       <<(<<44048, 0>>), (<<65535, 0>>)>>,
       <<(<<49320, 0>>), (<<65535, 0>>)>>,
       <<(<<25664, 0>>), (<<65472, 0>>)>>,
       <<(<<57344, 0>>), (<<61440, 0>>)>>,
       <<(<<61440, 0>>), (<<61440, 0>>)>>,
       <<(<<32512, 0>>), (<<65280, 0>>)>>,
       <<(<<65535, 65535>>), (<<65535, 65535>>)>> >>

\* 124-133: private_networks, each a network and a netmask; a 32-bit value is
\* written as its upper and its lower 16 bits
private_networks ==
    << <<(<<2560, 0>>), (<<65280, 0>>)>>,           \* 0x0a000000, 0xff000000
       <<(<<44048, 0>>), (<<65520, 0>>)>>,          \* 0xac100000, 0xfff00000
       <<(<<49320, 0>>), (<<65535, 0>>)>>,          \* 0xc0a80000, 0xffff0000
       <<(<<25664, 0>>), (<<65472, 0>>)>>,          \* 0x64400000, 0xffc00000
       <<(<<57344, 0>>), (<<61440, 0>>)>>,          \* 0xe0000000, 0xf0000000
       <<(<<61440, 0>>), (<<61440, 0>>)>>,          \* 0xf0000000, 0xf0000000
       <<(<<32512, 0>>), (<<65280, 0>>)>>,          \* 0x7f000000, 0xff000000
       <<(<<65535, 65535>>), (<<65535, 65535>>)>> >> \* 0xffffffff, 0xffffffff

\* 118-139: _validate_iPAddress; int.from_bytes(..., byteorder = "big") puts the
\* first octet highest, and the loop ends at the first network the address is in
validate_iPAddress(subject) ==
    LET octets == subject.asn1_value
        \* 122
        ip_value == <<octets[1] * 256 + octets[2], octets[3] * 256 + octets[4]>>
        \* 135: (ip_value & netmask) == network, bit by bit on each half
        RECURSIVE BitAnd(_, _, _)
        BitAnd(a, b, bits) ==
            IF bits = 0 THEN 0
            ELSE (a % 2) * (b % 2) + 2 * BitAnd(a \div 2, b \div 2, bits - 1)
        InNetwork(entry) ==
            /\ BitAnd(ip_value[1], entry[2][1], 16) = entry[1][1]
            /\ BitAnd(ip_value[2], entry[2][2], 16) = entry[1][2]
        \* 134-137
        RECURSIVE loop(_)
        loop(networks) ==
            IF networks = <<>> THEN <<>>
            ELSE IF InNetwork(Head(networks))
            THEN report("Enc_DER_Struct_GenName_IPAddress_PrivateAddressSpace")
            ELSE loop(Tail(networks))
    IN  report("Enc_DER_Struct_GenName_IPAddress_Unexpected")
        \o (IF Len(octets) \notin {4, 16}
            THEN report("Enc_DER_Struct_GenName_IPAddress_Malformed")
            ELSE IF Len(octets) = 4 THEN loop(private_networks)
            ELSE <<>>)

\* 152-155: _validate, which calls the handler named after the type of the name;
\* there is none for the other types
validate(subject, validator) ==
    IF subject.name = "dNSName" THEN Return(validate_dNSName(subject, validator))
    ELSE IF subject.name = "iPAddress" THEN Return(validate_iPAddress(subject))
    ELSE Return(<<>>)

\* domain names of up to MaxLabels labels and the name " ", each with a result of
\* the template validation
DNSNames ==
    {[name |-> "dNSName", labels |-> labels, template |-> template, asn1_value |-> <<>>] :
        labels \in (SeqsUpTo(Labels, MaxLabels) \ {<<>>}) \cup {<<" ">>},
        template \in {"Valid", "InvalidCharacter", "FullWildcardNotLeftmost",
                      "MoreThanOneWildcard", "WildcardInInternationalDomain"}}

\* addresses: octet strings of every length up to MaxOctets, and the four-octet
\* ones around the borders of the networks of lines 124-133
IPAddresses ==
    {[name |-> "iPAddress", labels |-> <<>>, template |-> "Valid", asn1_value |-> octets] :
        octets \in {[i \in 1 .. n |-> 0] : n \in 0 .. MaxOctets}
                   \cup {<<o1, o2, o3, o4>> :
                            o1 \in {9, 10, 11, 100, 127, 128, 172, 192, 223, 224, 239, 240, 255},
                            o2 \in {0, 15, 16, 31, 32, 63, 64, 127, 128, 167, 168, 169, 255},
                            o3 \in {0, 255},
                            o4 \in {0, 255}}}

InitGeneralName ==
    /\ pc = "start"
    /\ arg \in {a \in [subject : DNSNames \cup IPAddresses
                                 \cup {[name |-> "otherName", labels |-> <<>>,
                                        template |-> "Valid", asn1_value |-> <<>>]},
                       validator : [allow_dnsname_wildcard_matches : BOOLEAN]] :
                   a.subject.template \in DomainnameTemplateValidationResults(a.subject.labels)}
    /\ res = Return(<<>>)

Validate ==
    /\ pc = "start"
    /\ pc' = "validate"
    /\ res' = validate(arg.subject, arg.validator)
    /\ UNCHANGED arg

NextGeneralName == Validate

SpecGeneralName == InitGeneralName /\ [][NextGeneralName]_vars

\* the issues of a domain name's syntax: all but the one that says a domain name
\* was not expected
SyntaxIssues == Codes(res) \ {"Enc_DER_Struct_GenName_DNS_Unexpected"}
WildcardsPermitted ==
    /\ pc = "validate"
    /\ arg.subject.name = "dNSName"
    /\ arg.validator.allow_dnsname_wildcard_matches
FullWildcardNotLeftmost ==
    \E i \in DOMAIN arg.subject.labels : i > 1 /\ arg.subject.labels[i] = "*"
WildcardCount ==
    Cardinality({i \in DOMAIN arg.subject.labels : arg.subject.labels[i] \in WildcardLabels})
WildcardInInternationalLabel ==
    \E i \in DOMAIN arg.subject.labels : arg.subject.labels[i] = "xn--a*"
InvalidCharacter ==
    \E i \in DOMAIN arg.subject.labels : arg.subject.labels[i] = "a_b"

InPrivateAddressSpace ==
    LET o == arg.subject.asn1_value
    IN  \/ o[1] = 10
        \/ o[1] = 172 /\ o[2] \in 16 .. 31
        \/ o[1] = 192 /\ o[2] = 168
        \/ o[1] = 100 /\ o[2] \in 64 .. 127
        \/ o[1] \in 224 .. 239
        \/ o[1] \in 240 .. 255
        \/ o[1] = 127

\* C24: for an iPAddress, Malformed is reported iff the octet string has neither 4
\* nor 16 octets; PrivateAddressSpace is reported at most once, only for a 4-octet
\* address, and iff the address lies in one of the seven networks; the two are never
\* reported for the same name, and a 16-octet address yields neither.
C24_IPAddressIssues ==
    (pc = "validate" /\ arg.subject.name = "iPAddress") =>
        LET octets == Len(arg.subject.asn1_value)
        IN  /\ Returned
            /\ Emitted("Enc_DER_Struct_GenName_IPAddress_Malformed")
                  <=> octets \notin {4, 16}
            /\ Count(res, "Enc_DER_Struct_GenName_IPAddress_PrivateAddressSpace") <= 1
            /\ Emitted("Enc_DER_Struct_GenName_IPAddress_PrivateAddressSpace")
                  <=> (octets = 4 /\ InPrivateAddressSpace)
            /\ ~(/\ Emitted("Enc_DER_Struct_GenName_IPAddress_Malformed")
                 /\ Emitted("Enc_DER_Struct_GenName_IPAddress_PrivateAddressSpace"))
            /\ octets = 16 =>
                  /\ ~Emitted("Enc_DER_Struct_GenName_IPAddress_Malformed")
                  /\ ~Emitted("Enc_DER_Struct_GenName_IPAddress_PrivateAddressSpace")

\* 255.255.255.255 is in two of the listed networks and reported once
C24_Witness ==
    /\ pc = "validate"
    /\ arg.subject.name = "iPAddress"
    /\ arg.subject.asn1_value = <<255, 255, 255, 255>>
    /\ Count(res, "Enc_DER_Struct_GenName_IPAddress_PrivateAddressSpace") = 1
    /\ ~Emitted("Enc_DER_Struct_GenName_IPAddress_Malformed")

\* ------------------------------------------------------------------ ECCMath

\* curve coefficients are -1 .. MaxCoefficient, the coordinates tried on the curve
\* equation 0 .. MaxCoordinate, serialized points have up to MaxSerialized octets
MaxCoefficient == 2
MaxCoordinate == 8
MaxSerialized == 5

\* 110-112: PrimeFieldEllipticCurve.field_bits, p.bit_length()
field_bits(curve) ==
    LET RECURSIVE bit_length(_)
        bit_length(n) == IF n = 0 THEN 0 ELSE 1 + bit_length(n \div 2)
    IN  bit_length(curve.p)

\* 114-117 with point.x ** 2
on_curve_square(curve, point) ==
    LET x == point.x % curve.p
        y == point.y % curve.p
        lhs == (y * y) % curve.p
        rhs == ((x * x) + (curve.a * x) + curve.b) % curve.p
    IN  lhs = rhs

\* 114-117: PrimeFieldEllipticCurve.on_curve. Python's integers are unbounded; the
\* coordinates are reduced modulo p before they are multiplied, which leaves lhs and
\* rhs as they are and keeps the products within the range of the model's integers
on_curve(curve, point) ==
    LET x == point.x % curve.p
        y == point.y % curve.p
        lhs == (y * y) % curve.p
        rhs == ((x * x * x) + (curve.a * x) + curve.b) % curve.p
    IN  lhs = rhs

\* 36-39: EllipticCurvePoint.encode; int.to_bytes raises OverflowError for a value
\* that does not fit into length octets
encode(point) ==
    LET byte_len == (field_bits(point.curve) + 7) \div 8
        RECURSIVE to_bytes(_, _)
        to_bytes(value, length) ==
            IF length = 0 THEN <<>>
            ELSE Append(to_bytes(value \div 256, length - 1), value % 256)
        fits(value) == value >= 0 /\ value < 256 ^ byte_len
    IN  IF fits(point.x) /\ fits(point.y)
        THEN [raised |-> NoException,
              value |-> <<4>> \o to_bytes(point.x, byte_len) \o to_bytes(point.y, byte_len)]
        ELSE [raised |-> "OverflowError", value |-> <<>>]

\* 81-92 with the length test of line 85 on the coordinates alone
decode_point_without_prefix(curve, serialized_point) ==
    LET field_len == (field_bits(curve) + 7) \div 8
        expected_length == 2 * field_len
        RECURSIVE from_bytes(_)
        from_bytes(octets) ==
            IF octets = <<>> THEN 0
            ELSE 256 * from_bytes(SubSeq(octets, 1, Len(octets) - 1)) + octets[Len(octets)]
    IN  IF serialized_point = <<>>
        THEN [raised |-> "IndexError", value |-> <<>>]
        ELSE IF serialized_point[1] = 4
        THEN IF Len(serialized_point) = expected_length
             THEN [raised |-> NoException,
                   value |-> [x |-> from_bytes(SubSeq(serialized_point, 2, 1 + field_len)),
                              y |-> from_bytes(SubSeq(serialized_point, 2 + field_len,
                                                      1 + 2 * field_len)),
                              curve |-> curve]]
             ELSE [raised |-> "InvalidInputException", value |-> <<>>]
        ELSE [raised |-> "UnsupportedEncodingException", value |-> <<>>]

\* 81-92: EllipticCurve.decode_point; serialized_point[0] of no octets is an
\* IndexError
decode_point(curve, serialized_point) ==
    LET field_len == (field_bits(curve) + 7) \div 8
        expected_length == 1 + 2 * field_len
        RECURSIVE from_bytes(_)
        from_bytes(octets) ==
            IF octets = <<>> THEN 0
            ELSE 256 * from_bytes(SubSeq(octets, 1, Len(octets) - 1)) + octets[Len(octets)]
    IN  IF serialized_point = <<>>
        THEN [raised |-> "IndexError", value |-> <<>>]
        ELSE IF serialized_point[1] = 4
        THEN IF Len(serialized_point) = expected_length
             THEN [raised |-> NoException,
                   value |-> [x |-> from_bytes(SubSeq(serialized_point, 2, 1 + field_len)),
                              y |-> from_bytes(SubSeq(serialized_point, 2 + field_len,
                                                      1 + 2 * field_len)),
                              curve |-> curve]]
             ELSE [raised |-> "InvalidInputException", value |-> <<>>]
        ELSE [raised |-> "UnsupportedEncodingException", value |-> <<>>]

\* prime-field curves; n, h and the generator are not read by these functions
PrimeFieldCurves(primes) == [p : primes, a : -1 .. MaxCoefficient, b : -1 .. MaxCoefficient]

\* small curves with every point of a square around the origin; curves of 3, 8 and 9
\* field bits with coordinates at the borders of one and two octets; and octet
\* strings to decode
InitECC ==
    /\ pc = "start"
    /\ arg \in
          {[point |-> [x |-> x, y |-> y, curve |-> curve], serialized_point |-> <<>>] :
              curve \in PrimeFieldCurves({2, 3, 5, 7}),
              x \in 0 .. MaxCoordinate, y \in 0 .. MaxCoordinate}
          \cup {[point |-> [x |-> x, y |-> y, curve |-> [p |-> p, a |-> 1, b |-> 1]],
                 serialized_point |-> <<>>] :
                   p \in {7, 251, 257},
                   x \in {0, 1, 255, 256, 65535, 65536},
                   y \in {0, 1, 255, 256, 65535, 65536}}
          \cup {[point |-> [x |-> 0, y |-> 1, curve |-> [p |-> p, a |-> 1, b |-> 1]],
                 serialized_point |-> octets] :
                   p \in {7, 257}, octets \in SeqsUpTo({0, 4, 255}, MaxSerialized)}
    /\ res = [raised |-> NoException, value |-> <<>>]

OnCurve ==
    /\ pc = "start"
    /\ pc' = "on_curve"
    /\ res' = [raised |-> NoException, value |-> on_curve(arg.point.curve, arg.point)]
    /\ UNCHANGED arg

DecodePoint ==
    /\ pc = "start"
    /\ pc' = "decode_point"
    /\ res' = decode_point(arg.point.curve, arg.serialized_point)
    /\ UNCHANGED arg

\* curve.decode_point(point.encode())
DecodeEncodedPoint ==
    /\ pc = "start"
    /\ pc' = "decode_point(encode)"
    /\ res' = IF encode(arg.point).raised # NoException THEN encode(arg.point)
              ELSE decode_point(arg.point.curve, encode(arg.point).value)
    /\ UNCHANGED arg

NextECC ==
    \/ OnCurve
    \/ DecodePoint
    \/ DecodeEncodedPoint

SpecECC == InitECC /\ [][NextECC]_vars

\* y^2 and x^3 + a*x + b differ by a multiple of p
CurveEquationHolds ==
    LET x == arg.point.x
        y == arg.point.y
        curve == arg.point.curve
        difference == y * y - (x * x * x + curve.a * x + curve.b)
    IN  \E k \in -(MaxCoordinate + 1) ^ 3 .. (MaxCoordinate + 1) ^ 3 :
            difference = k * curve.p

\* C25: for every prime-field curve (p, a, b) and every point (x, y), on_curve returns
\* true iff y^2 is congruent to x^3 + a*x + b modulo p.
C25_OnCurveIffCongruent ==
    (pc = "on_curve" /\ arg.point.x <= MaxCoordinate /\ arg.point.y <= MaxCoordinate) =>
        /\ Returned
        /\ res.value <=> CurveEquationHolds

\* (2, 1) is not on y^2 = x^3 + 2x + 2 over GF(7), and (1, 4) is
C25_Witness ==
    /\ pc = "on_curve"
    /\ arg.point.curve = [p |-> 7, a |-> 2, b |-> 2]
    /\ \/ arg.point.x = 2 /\ arg.point.y = 1 /\ res.value = FALSE
       \/ arg.point.x = 1 /\ arg.point.y = 4 /\ res.value = TRUE

ByteLen == (field_bits(arg.point.curve) + 7) \div 8

\* C27: decode_point(point.encode()) returns a point with the same x, y and curve for
\* every point with 0 <= x, y < 2^(8 * ceil(field_bits / 8)); decode_point raises
\* InvalidInputException for every input that starts with 0x04 and whose length is
\* not 1 + 2 * ceil(field_bits / 8), and UnsupportedEncodingException for every input
\* whose first octet is not 0x04.
C27_PointRoundTrip ==
    /\ (/\ pc = "decode_point(encode)"
        /\ arg.point.x < 256 ^ ByteLen
        /\ arg.point.y < 256 ^ ByteLen)
          => (Returned /\ res.value = arg.point)
    /\ (pc = "decode_point" /\ arg.serialized_point # <<>>) =>
          /\ (arg.serialized_point[1] = 4 /\ Len(arg.serialized_point) # 1 + 2 * ByteLen)
                => res.raised = "InvalidInputException"
          /\ arg.serialized_point[1] # 4 => res.raised = "UnsupportedEncodingException"

\* two-octet coordinates, and an input that is one octet short
C27_Witness ==
    \/ /\ pc = "decode_point(encode)"
       /\ arg.point.curve.p = 257
       /\ arg.point.x = 65535
       /\ arg.point.y = 256
       /\ res.value = arg.point
    \/ /\ pc = "decode_point"
       /\ arg.point.curve.p = 257
       /\ arg.serialized_point = <<4, 0, 255, 4>>
       /\ res.raised = "InvalidInputException"

MaxContainer == 3

ContainerOids == {"1.1", "1.2", "1.3"}

\* X509Extensions.py 47-50 with `==` in the comprehension
remove_all_others(exts, oid) ==
    LET matches(extension) == extension.oid = oid
    IN  SelectSeq(exts, matches)

\* X509Extensions.py 47-50: remove_all, the new _exts
remove_all(exts, oid) ==
    LET differs(extension) == extension.oid # oid
    IN  SelectSeq(exts, differs)

\* X509Extensions.py 52-55: filter, the new _exts
filter(exts, oid, replacement_extension) ==
    [i \in DOMAIN exts |-> IF exts[i].oid # oid THEN exts[i] ELSE replacement_extension]

\* X509Extensions.py 57-59: has
has(exts, oid) == \E i \in DOMAIN exts : exts[i].oid = oid

\* the extensions a container is built from carry their index as id, the
\* replacements handed to filter the id 0
OriginalExtensions ==
    {[i \in DOMAIN oids |-> [oid |-> oids[i], id |-> i]] :
        oids \in SeqsUpTo(ContainerOids, MaxContainer)}

\* 32-33: X509Extensions.__init__
InitContainer ==
    /\ pc = "start"
    /\ arg \in [extensions : OriginalExtensions]
    /\ res = [exts |-> arg.extensions, oid |-> None]

RemoveAll ==
    \E oid \in ContainerOids :
        /\ pc' = "remove_all"
        /\ res' = [exts |-> remove_all(res.exts, oid), oid |-> Some(oid)]
        /\ UNCHANGED arg

Filter ==
    \E oid \in ContainerOids, replacement_oid \in ContainerOids :
        /\ pc' = "filter"
        /\ res' = [exts |-> filter(res.exts, oid, [oid |-> replacement_oid, id |-> 0]),
                   oid |-> Some(oid)]
        /\ UNCHANGED arg

NextContainer == RemoveAll \/ Filter

SpecContainer == InitContainer /\ [][NextContainer]_vars

\* the extensions of the container that it was built with are where they were
\* relative to each other
OriginalOrderKept(exts) ==
    /\ \A i \in DOMAIN exts : exts[i].id # 0 => exts[i] = arg.extensions[exts[i].id]
    /\ \A i, j \in DOMAIN exts :
          (i < j /\ exts[i].id # 0 /\ exts[j].id # 0) => exts[i].id < exts[j].id

LowestIndexWith(exts, oid) ==
    CHOOSE i \in DOMAIN exts :
        exts[i].oid = oid /\ \A j \in DOMAIN exts : exts[j].oid = oid => i <= j

\* C28: after any sequence of remove_all and filter operations the extensions that
\* were neither removed nor replaced keep their original relative order,
\* get_first(oid) is the lowest-index extension with that OID (None if there is none),
\* has(oid) holds exactly when get_first(oid) is not None, remove_all(oid) leaves
\* has(oid) false, and filter(oid, r) leaves the number of extensions unchanged.
C28_ContainerOperations ==
    [][/\ OriginalOrderKept(res'.exts)
       /\ \A oid \in ContainerOids :
             /\ get_first(res'.exts, oid) =
                   IF \E i \in DOMAIN res'.exts : res'.exts[i].oid = oid
                   THEN Some(res'.exts[LowestIndexWith(res'.exts, oid)])
                   ELSE None
             /\ has(res'.exts, oid) <=> get_first(res'.exts, oid) # None
       /\ pc' = "remove_all" => ~has(res'.exts, res'.oid[1])
       /\ pc' = "filter" => Len(res'.exts) = Len(res.exts)]_vars

\* a container of three extensions that has seen a filter and then a remove_all: the
\* first extension is where it was, the second is replaced and the third removed
C28_Witness ==
    /\ pc = "remove_all"
    /\ Len(arg.extensions) = 3
    /\ Len(res.exts) = 2
    /\ res.exts[1] = arg.extensions[1]
    /\ res.exts[2].id = 0
    /\ res.oid = Some(arg.extensions[3].oid)

\* ------------------------------------------------- scripts/cert_examine.py

\* most processors counted, and most certificate files found in the corpus
MaxThreads == 2
MaxFiles == 3

Workers == 1 .. MaxFiles

\* 35-36, 53: thread_cnt permits, no certificate seen, no worker started. A file is
\* the answer of os.path.isfile(outfile) for it.
InitExamine ==
    /\ arg \in [thread_cnt : 1 .. MaxThreads, files : SeqsUpTo(BOOLEAN, MaxFiles)]
    /\ pc = [main |-> "for", worker |-> [w \in Workers |-> "idle"]]
    /\ res = [threads |-> arg.thread_cnt, certno |-> 0, index |-> 0, i |-> 0]

\* 54-63: the next file of the walk; `continue` when its outfile is there, else
\* certno += 1. After the last file the drain loop of line 68 begins.
Walk ==
    /\ pc.main = "for"
    /\ IF res.index = Len(arg.files)
       THEN /\ pc' = [pc EXCEPT !.main = "drain"]
            /\ UNCHANGED res
       ELSE IF arg.files[res.index + 1]
       THEN /\ res' = [res EXCEPT !.index = @ + 1]
            /\ UNCHANGED pc
       ELSE /\ res' = [res EXCEPT !.index = @ + 1, !.certno = @ + 1]
            /\ pc' = [pc EXCEPT !.main = "acquire"]
    /\ UNCHANGED arg

\* 64 with threads.acquire(blocking = False)
AcquireWithoutBlocking ==
    /\ pc.main = "acquire"
    /\ res' = [res EXCEPT !.threads = IF @ > 0 THEN @ - 1 ELSE @]
    /\ pc' = [pc EXCEPT !.main = "start"]
    /\ UNCHANGED arg

\* 64: threads.acquire() blocks while the semaphore is 0
Acquire ==
    /\ pc.main = "acquire"
    /\ res.threads > 0
    /\ res' = [res EXCEPT !.threads = @ - 1]
    /\ pc' = [pc EXCEPT !.main = "start"]
    /\ UNCHANGED arg

\* 65-66: thread.start()
Start ==
    /\ pc.main = "start"
    /\ pc' = [pc EXCEPT !.main = "for", !.worker[res.certno] = "makedirs"]
    /\ UNCHANGED <<arg, res>>

\* 68-69: one of the thread_cnt acquisitions of the drain loop
Drain ==
    /\ pc.main = "drain"
    /\ res.threads > 0
    /\ res' = [res EXCEPT !.threads = @ - 1, !.i = @ + 1]
    /\ pc' = [pc EXCEPT !.main = IF res.i + 1 = arg.thread_cnt THEN "done" ELSE "drain"]
    /\ UNCHANGED arg

\* 39-42: os.makedirs succeeds, raises FileExistsError, which is passed over, or
\* raises another OSError, which ends the thread
Makedirs(w) ==
    /\ pc.worker[w] = "makedirs"
    /\ \E outcome \in {"created", "FileExistsError", "PermissionError"} :
          pc' = [pc EXCEPT !.worker[w] =
                    IF outcome = "PermissionError" THEN "raised" ELSE "check_call"]
    /\ UNCHANGED <<arg, res>>

\* 46-48: subprocess.check_call returns, raises CalledProcessError, or raises
\* another exception (the program cannot be run), which ends the thread
CheckCall(w) ==
    /\ pc.worker[w] = "check_call"
    /\ \E outcome \in {"returned", "CalledProcessError", "FileNotFoundError"} :
          pc' = [pc EXCEPT !.worker[w] =
                    CASE outcome = "returned" -> "release"
                      [] outcome = "CalledProcessError" -> "failed_certificate"
                      [] OTHER -> "raised"]
    /\ UNCHANGED <<arg, res>>

\* 49-50: the file name is appended to failed_certificate.txt
FailedCertificate(w) ==
    /\ pc.worker[w] = "failed_certificate"
    /\ pc' = [pc EXCEPT !.worker[w] = "release"]
    /\ UNCHANGED <<arg, res>>

\* 51: threads.release()
Release(w) ==
    /\ pc.worker[w] = "release"
    /\ res' = [res EXCEPT !.threads = @ + 1]
    /\ pc' = [pc EXCEPT !.worker[w] = "returned"]
    /\ UNCHANGED arg

MainThread == Walk \/ Acquire \/ Start \/ Drain

execute(w) == Makedirs(w) \/ CheckCall(w) \/ FailedCertificate(w) \/ Release(w)

NextExamine ==
    \/ Walk
    \/ Acquire
    \/ Start
    \/ Drain
    \/ \E w \in Workers : Makedirs(w)
    \/ \E w \in Workers : CheckCall(w)
    \/ \E w \in Workers : FailedCertificate(w)
    \/ \E w \in Workers : Release(w)

SpecExamine == InitExamine /\ [][NextExamine]_vars

\* every thread that can take a step takes one: the interpreter switches between
\* the runnable threads
SpecExamineFair ==
    /\ SpecExamine
    /\ WF_vars(MainThread)
    /\ \A w \in Workers : WF_vars(execute(w))

\* the workers that were started and have not released the semaphore
HoldingPermit == {w \in Workers : pc.worker[w] \notin {"idle", "returned"}}

\* C29: under every interleaving the number of workers that were started and have
\* not yet released the semaphore never exceeds thread_cnt, and the main thread is
\* past its drain loop only when no started worker still holds a permit.
C29_PermitsBoundWorkers ==
    /\ Cardinality(HoldingPermit) <= arg.thread_cnt
    /\ pc.main = "done" => HoldingPermit = {}

\* the main thread is past the drain loop after more workers ran than there are permits
C29_Witness ==
    /\ pc.main = "done"
    /\ res.certno > arg.thread_cnt
    /\ \A w \in 1 .. res.certno : pc.worker[w] = "returned"

\* C30: every started worker eventually releases its permit, whatever the outcome of
\* its directory creation and subprocess invocation, and the main thread's final
\* thread_cnt acquisitions complete.
C30_WorkersReleaseAndMainTerminates ==
    /\ \A w \in Workers : (pc.worker[w] # "idle") ~> (pc.worker[w] = "returned")
    /\ <>(pc.main = "done")

\* a worker that ends by an exception keeps its permit for ever; without such a
\* worker every permit comes back and the main thread terminates
TerminatesUnlessWorkerRaised ==
    \/ <>(\E w \in Workers : pc.worker[w] = "raised")
    \/ C30_WorkersReleaseAndMainTerminates

====
